---- MODULE Spec2Model ----
(***************************************************************************)
(* Quote engine and mesh analyzer of Daemonaise/studio:                    *)
(*   src/src/ai/flows/quote-generator-flow.ts  (quoteGenerator)            *)
(*   src/src/app/actions/quote-actions.ts      (generateQuoteFromModel)    *)
(*   src/src/lib/mesh-analyzer.ts              (analyzeMeshFile; the file  *)
(*     holds two revisions one after the other, the second one, from its   *)
(*     line 395 on, is the one modelled)                                   *)
(*                                                                         *)
(* Numbers.  JavaScript numbers are modelled as exact rationals.  Lengths  *)
(* are millimetres, hours and grams are integers.  Money is an integer     *)
(* number of 1/MoneyScale currency units, so that percentages (1/100) and  *)
(* three multipliers (1/10 each) stay exact.  A JavaScript number that may *)
(* be NaN is a record [nan, v].                                            *)
(***************************************************************************)
EXTENDS Integers, Sequences, FiniteSets, TLC

\* Number of quoteGenerator calls that may be in flight at the same time.
NumCalls == 2

Calls == 1..NumCalls
MetricIds == 1..2

Undefined == "undefined"
MoneyScale == 100 * 10 * 10 * 10
Infinity == 1000 * 1000 * 1000

CeilDiv(a, b) == (a + b - 1) \div b
Max2(a, b) == IF a >= b THEN a ELSE b
Min2(a, b) == IF a <= b THEN a ELSE b
Max3(a, b, c) == Max2(a, Max2(b, c))

\* ---- JavaScript numbers that may be NaN --------------------------------
Num(n) == [nan |-> FALSE, v |-> n]
NaN == [nan |-> TRUE, v |-> 0]
\* a * b and a + b: NaN when either operand is NaN (undefined coerces to NaN)
JMul(a, b) == IF a.nan \/ b.nan THEN NaN ELSE Num(a.v * b.v)
JAdd(a, b) == IF a.nan \/ b.nan THEN NaN ELSE Num(a.v + b.v)
\* a * (t / 10): multiplication by a multiplier given in tenths (exact: every
\* amount it is applied to is a multiple of 10 at that point)
JTenths(a, t) == IF a.nan THEN NaN ELSE Num((a.v \div 10) * t)
\* Math.max / Math.min: NaN when either operand is NaN
JMax(a, b) == IF a.nan \/ b.nan THEN NaN ELSE Num(Max2(a.v, b.v))
JMin(a, b) == IF a.nan \/ b.nan THEN NaN ELSE Num(Min2(a.v, b.v))
\* table[nozzleSize]: undefined (NaN once multiplied) when the key is absent
Lookup(table, k) == IF k \in DOMAIN table THEN Num(table[k]) ELSE NaN
\* table[nozzleSize] || Infinity
RateOrInfinity(table, k) ==
  IF k \in DOMAIN table /\ table[k] # 0 THEN table[k] ELSE Infinity

\* ---- PricingConfiguration (src/app/data/pricing-matrix.json) ------------
\* The data file is not part of the sources; this is a configuration
\* snapshot with the schema the code reads.  Object.entries order is the
\* order of PrinterKeys.
PrinterKeys == <<"mini", "tall", "wide", "bare">>

Printers ==
  [mini |-> [label |-> "Mini", hasCaps |-> TRUE,
             caps |-> [maxNozzleC |-> 260, maxBedC |-> 100, hasEnclosure |-> FALSE,
                       hasHeatedChamber |-> FALSE, heatedChamberC |-> 0,
                       hasHardenedNozzle |-> FALSE],
             build |-> [x |-> 200, y |-> 200, z |-> 200],
             hourlyRates |-> ("0.4" :> 3) @@ ("0.6" :> 4),
             bedCycleRates |-> ("0.4" :> 20) @@ ("0.6" :> 25),
             bedCycleHours |-> 8],
   tall |-> [label |-> "Tall", hasCaps |-> TRUE,
             caps |-> [maxNozzleC |-> 300, maxBedC |-> 110, hasEnclosure |-> TRUE,
                       hasHeatedChamber |-> FALSE, heatedChamberC |-> 0,
                       hasHardenedNozzle |-> FALSE],
             build |-> [x |-> 250, y |-> 250, z |-> 400],
             hourlyRates |-> ("0.4" :> 5) @@ ("0.6" :> 6),
             bedCycleRates |-> ("0.4" :> 30) @@ ("0.6" :> 40),
             bedCycleHours |-> 10],
   wide |-> [label |-> "Wide", hasCaps |-> TRUE,
             caps |-> [maxNozzleC |-> 320, maxBedC |-> 100, hasEnclosure |-> TRUE,
                       hasHeatedChamber |-> TRUE, heatedChamberC |-> 60,
                       hasHardenedNozzle |-> TRUE],
             build |-> [x |-> 300, y |-> 300, z |-> 280],
             hourlyRates |-> ("0.4" :> 5),
             bedCycleRates |-> ("0.4" :> 35),
             bedCycleHours |-> 12],
   bare |-> [label |-> "Bare", hasCaps |-> FALSE,
             caps |-> [maxNozzleC |-> 0, maxBedC |-> 0, hasEnclosure |-> FALSE,
                       hasHeatedChamber |-> FALSE, heatedChamberC |-> 0,
                       hasHardenedNozzle |-> FALSE],
             build |-> [x |-> 500, y |-> 500, z |-> 500],
             hourlyRates |-> ("0.4" :> 1) @@ ("0.6" :> 1),
             bedCycleRates |-> ("0.4" :> 5) @@ ("0.6" :> 5),
             bedCycleHours |-> 6]]

\* pricingMatrix.printer_fleet: "wide" has no fleet entry
PrinterFleet == [mini |-> 3, tall |-> 2, bare |-> 1]

Filaments ==
  [PLA |-> [sellPricePerGram |-> 2,
            requirements |-> [minNozzleC |-> 200, minBedC |-> 60, requiresEnclosure |-> FALSE,
                              requiresHeatedChamber |-> FALSE, requiresChamberTempC |-> 0,
                              requiresHardenedNozzle |-> FALSE]],
   ABS |-> [sellPricePerGram |-> 3,
            requirements |-> [minNozzleC |-> 250, minBedC |-> 100, requiresEnclosure |-> TRUE,
                              requiresHeatedChamber |-> FALSE, requiresChamberTempC |-> 0,
                              requiresHardenedNozzle |-> FALSE]],
   ASA |-> [sellPricePerGram |-> 3,
            requirements |-> [minNozzleC |-> 250, minBedC |-> 110, requiresEnclosure |-> TRUE,
                              requiresHeatedChamber |-> FALSE, requiresChamberTempC |-> 0,
                              requiresHardenedNozzle |-> FALSE]],
   PC |-> [sellPricePerGram |-> 5,
           requirements |-> [minNozzleC |-> 280, minBedC |-> 100, requiresEnclosure |-> TRUE,
                             requiresHeatedChamber |-> TRUE, requiresChamberTempC |-> 60,
                             requiresHardenedNozzle |-> TRUE]],
   PEEK |-> [sellPricePerGram |-> 9,
             requirements |-> [minNozzleC |-> 400, minBedC |-> 120, requiresEnclosure |-> TRUE,
                               requiresHeatedChamber |-> TRUE, requiresChamberTempC |-> 90,
                               requiresHardenedNozzle |-> TRUE]]]

\* Scalar configuration.  efficiency is in tenths, multipliers are in
\* tenths, utilizationFactor is in tenths; the risk model is a variable.
pricingMatrix ==
  [unitSanity |-> [enabled |-> TRUE,
                   scaleRules |-> <<[ifMaxDimGreaterThan |-> 60000, scaleDivisor |-> 100, label |-> "meters"],
                                    [ifMaxDimGreaterThan |-> 6000, scaleDivisor |-> 10, label |-> "centimeters"]>>],
   jobScaleRules |-> [smallPart |-> [maxDim_mm |-> 150, maxHours |-> 8],
                      largeAssembly |-> [minHours |-> 48]],
   segmentation |-> [efficiency |-> 7, seamsPerSegmentDefault |-> 2, bondingLaborPerSeam |-> 5,
                     maxAutoSegments |-> [mini |-> 8, tall |-> 16],
                     segmentationModeMultipliers |-> [none |-> 10, moderate |-> 11, heavy |-> 13]],
   multipliers |-> [complexity |-> [triangleCountThresholds |-> [medium |-> 100000, high |-> 500000],
                                    multipliers |-> [low |-> 10, medium |-> 11, high |-> 12]],
                    longJob |-> [thresholdHours |-> 24, multiplier |-> 12]],
   meta |-> [shippingEmbedded |-> [embeddedPerHour |-> 1]],
   leadTime |-> [utilizationFactor |-> 8, minDays |-> 3, maxDaysCap |-> 30,
                 segmentationExtraDays |-> [none |-> 0, moderate |-> 2, heavy |-> 5]]]

\* pricingMatrix.riskModel snapshots: percentages in 1/100, minRisk in
\* currency units.
RiskModels ==
  [baseRiskPercent : {12, 30},
   tierBump : {[none |-> 0, moderate |-> 3, heavy |-> 8]},
   capPercentOfBase : {25, 50},
   minRisk : {0, 250}]


\* ---- quoteGenerator, step by step --------------------------------------
MinOf(S) == CHOOSE i \in S : \A j \in S : i <= j
SetOf(seq) == {seq[i] : i \in 1..Len(seq)}
Money(n) == Num(n * MoneyScale)
\* a * (p / 100): multiplication by a percentage
JPercent(a, p) == IF a.nan THEN NaN ELSE Num((a.v \div 100) * p)
Truthy(flag) == flag = "true"
TruthyKey(k) == k # Undefined /\ k # ""

\* 2. Unit sanity check: the first matching rule divides the three extents.
UnitSanity(bbox) ==
  LET rules == pricingMatrix.unitSanity.scaleRules
      maxDim == Max3(bbox.x, bbox.y, bbox.z)
      hits == {i \in 1..Len(rules) : maxDim > rules[i].ifMaxDimGreaterThan}
  IN  IF pricingMatrix.unitSanity.enabled /\ hits # {}
      THEN LET rule == rules[MinOf(hits)]
           IN  [bbox |-> [x |-> bbox.x \div rule.scaleDivisor,
                          y |-> bbox.y \div rule.scaleDivisor,
                          z |-> bbox.z \div rule.scaleDivisor],
                warnings |-> << <<"Unit scale adjusted", rule.label>> >>]
      ELSE [bbox |-> bbox, warnings |-> << >>]

\* 3. Compatibility of one printer with the filament requirements.
IsCompatible(printer, filamentReqs) ==
  LET caps == printer.caps
  IN  /\ printer.hasCaps
      /\ ~(caps.maxNozzleC < filamentReqs.minNozzleC)
      /\ ~(caps.maxBedC < filamentReqs.minBedC)
      /\ ~(filamentReqs.requiresEnclosure /\ ~caps.hasEnclosure)
      /\ ~(filamentReqs.requiresHeatedChamber /\ ~caps.hasHeatedChamber)
      /\ ~(filamentReqs.requiresChamberTempC > 0
           /\ caps.heatedChamberC < filamentReqs.requiresChamberTempC)
      /\ ~(filamentReqs.requiresHardenedNozzle /\ ~caps.hasHardenedNozzle)

compatiblePrinters(filamentReqs) ==
  SelectSeq(PrinterKeys, LAMBDA k : IsCompatible(Printers[k], filamentReqs))

\* The filter pushes one warning per printer without capabilities data.
capsWarnings ==
  LET missing == SelectSeq(PrinterKeys, LAMBDA k : ~Printers[k].hasCaps)
  IN  [i \in 1..Len(missing) |->
         <<"Printer is missing capabilities data and was excluded", Printers[missing[i]].label>>]

FitsBuild(build, bbox) ==
  build.x >= bbox.x /\ build.y >= bbox.y /\ build.z >= bbox.z

\* Array.prototype.sort is stable: the first element after sorting is the
\* earliest entry with the least hourly rate (a missing rate is Infinity).
CheapestFirst(keys, nozzleSize) ==
  LET rate(i) == RateOrInfinity(Printers[keys[i]].hourlyRates, nozzleSize)
      best == CHOOSE i \in 1..Len(keys) :
                \A j \in 1..Len(keys) :
                  IF j < i THEN rate(j) > rate(i) ELSE rate(j) >= rate(i)
  IN  keys[best]

\* ... and the earliest entry with the largest x*y build area.
LargestFirst(keys) ==
  LET area(i) == Printers[keys[i]].build.x * Printers[keys[i]].build.y
      best == CHOOSE i \in 1..Len(keys) :
                \A j \in 1..Len(keys) :
                  IF j < i THEN area(j) < area(i) ELSE area(j) <= area(i)
  IN  keys[best]

autoSelect(compat, bbox, nozzleSize) ==
  LET eligiblePrintersUnsegmented ==
        SelectSeq(compat, LAMBDA k : FitsBuild(Printers[k].build, bbox))
  IN  IF Len(eligiblePrintersUnsegmented) > 0
      THEN CheapestFirst(eligiblePrintersUnsegmented, nozzleSize)
      ELSE LargestFirst(compat)

\* Variant: the named printer is honoured when it is configured, without
\* looking at its compatibility with the filament.
selectPrinterAnyConfigured(initialAutoSelection, userSelectedPrinter, material, compat, bbox, nozzleSize) ==
  LET asked == ~Truthy(initialAutoSelection) /\ TruthyKey(userSelectedPrinter)
      honoured == asked /\ userSelectedPrinter \in SetOf(PrinterKeys)
      downgraded == asked /\ ~honoured
      auto == Truthy(initialAutoSelection) \/ downgraded
  IN  [key |-> IF auto THEN autoSelect(compat, bbox, nozzleSize)
               ELSE IF honoured THEN userSelectedPrinter
               ELSE Undefined,
       auto |-> auto,
       warnings |-> IF downgraded
                    THEN << <<"Your selected printer doesn't support the material or its requirements. Auto-selecting a suitable printer.", material>> >>
                    ELSE << >>]

\* Variant: the named printer is ignored and a printer is always auto-selected.
selectPrinterAlwaysAuto(initialAutoSelection, userSelectedPrinter, material, compat, bbox, nozzleSize) ==
  [key |-> autoSelect(compat, bbox, nozzleSize), auto |-> TRUE, warnings |-> << >>]

\* Honour the user's choice if possible, else auto-select.  Yields the
\* selected key (Undefined when none), the final autoPrinterSelection flag
\* and the warnings pushed.
selectPrinter(initialAutoSelection, userSelectedPrinter, material, compat, bbox, nozzleSize) ==
  LET asked == ~Truthy(initialAutoSelection) /\ TruthyKey(userSelectedPrinter)
      honoured == asked /\ userSelectedPrinter \in SetOf(compat)
      downgraded == asked /\ ~honoured
      auto == Truthy(initialAutoSelection) \/ downgraded
  IN  [key |-> IF auto THEN autoSelect(compat, bbox, nozzleSize)
               ELSE IF honoured THEN userSelectedPrinter
               ELSE Undefined,
       auto |-> auto,
       warnings |-> IF downgraded
                    THEN << <<"Your selected printer doesn't support the material or its requirements. Auto-selecting a suitable printer.", material>> >>
                    ELSE << >>]

\* 4./6. Segment count for the selected printer (only computed when the box
\* does not fit): ceil(dim / (build * efficiency)), z softened by 0.6.
segmentCount(bbox, build) ==
  LET eff == pricingMatrix.segmentation.efficiency
      sx == CeilDiv(bbox.x * 10, build.x * eff)
      sy == CeilDiv(bbox.y * 10, build.y * eff)
      sz == CeilDiv(bbox.z * 100, build.z * eff * 6)
  IN  Max2(2, sx * sy * Max2(1, sz))

\* Variant: the fit in the selected printer's build volume is not looked at.
jobScaleOfIgnoringFit(segmentationRequired, maxDimAfterScaling, estimatedHours) ==
  LET rules == pricingMatrix.jobScaleRules
  IN  IF maxDimAfterScaling > 380
         \/ estimatedHours >= rules.largeAssembly.minHours
      THEN "Large Assembly"
      ELSE IF maxDimAfterScaling <= rules.smallPart.maxDim_mm
              /\ estimatedHours < rules.smallPart.maxHours
           THEN "Small Part"
           ELSE "Medium Part"

\* Variant: the large-assembly hours threshold compared with > instead of >=.
jobScaleOfStrictHours(segmentationRequired, maxDimAfterScaling, estimatedHours) ==
  LET rules == pricingMatrix.jobScaleRules
  IN  IF segmentationRequired \/ maxDimAfterScaling > 380
         \/ estimatedHours > rules.largeAssembly.minHours
      THEN "Large Assembly"
      ELSE IF maxDimAfterScaling <= rules.smallPart.maxDim_mm
              /\ estimatedHours < rules.smallPart.maxHours
           THEN "Small Part"
           ELSE "Medium Part"

\* 5. Job scale and mode.
jobScaleOf(segmentationRequired, maxDimAfterScaling, estimatedHours) ==
  LET rules == pricingMatrix.jobScaleRules
  IN  IF segmentationRequired \/ maxDimAfterScaling > 380
         \/ estimatedHours >= rules.largeAssembly.minHours
      THEN "Large Assembly"
      ELSE IF maxDimAfterScaling <= rules.smallPart.maxDim_mm
              /\ estimatedHours < rules.smallPart.maxHours
           THEN "Small Part"
           ELSE "Medium Part"

modeOf(jobScale) == IF jobScale = "Large Assembly" THEN "Bed-Cycle Mode" ELSE "Hourly"

tierOf(segmentCountEstimate) ==
  IF segmentCountEstimate > 12 THEN "heavy"
  ELSE IF segmentCountEstimate > 1 THEN "moderate"
  ELSE "none"

\* Capped risk model: Math.max(minRisk, Math.min(rawRisk, maxRisk)).
riskCostOf(baseCostForRisk, segmentationTier, rm) ==
  LET riskPercent == rm.baseRiskPercent + rm.tierBump[segmentationTier]
      maxRisk == JPercent(baseCostForRisk, rm.capPercentOfBase)
      rawRisk == JPercent(baseCostForRisk, riskPercent)
  IN  JMax(Money(rm.minRisk), JMin(rawRisk, maxRisk))

complexityOf(triangles) ==
  LET c == pricingMatrix.multipliers.complexity
  IN  IF triangles > c.triangleCountThresholds.high THEN "high"
      ELSE IF triangles > c.triangleCountThresholds.medium THEN "medium"
      ELSE "low"

RECURSIVE fleetSum(_)
fleetSum(keys) ==
  IF keys = << >> THEN 0
  ELSE (IF Head(keys) \in DOMAIN PrinterFleet THEN PrinterFleet[Head(keys)] ELSE 0)
       + fleetSum(Tail(keys))

\* Variant: the two ends of the range are returned without the maxDaysCap.
leadTimeOfUncapped(mode, auto, selectedPrinterKey, compat, bedCyclesEstimate, finalEstimatedHours, segmentationTier) ==
  LET lt == pricingMatrix.leadTime
      own == IF selectedPrinterKey \in DOMAIN PrinterFleet /\ PrinterFleet[selectedPrinterKey] # 0
             THEN PrinterFleet[selectedPrinterKey] ELSE 1
      eligibleFleetCount ==
        IF mode = "Bed-Cycle Mode"
        THEN (IF ~auto THEN own ELSE fleetSum(compat))
        ELSE 0
      cyclesPerDay10 == Max2(10, eligibleFleetCount * lt.utilizationFactor)
      baseDays == IF mode = "Bed-Cycle Mode"
                  THEN CeilDiv(bedCyclesEstimate * 10, cyclesPerDay10)
                  ELSE CeilDiv(finalEstimatedHours, 12)
      segmentationAddDays == lt.segmentationExtraDays[segmentationTier]
      minLead == Max2(lt.minDays, baseDays + segmentationAddDays)
      maxLead == CeilDiv(minLead * 14, 10)
  IN  [min |-> minLead, max |-> maxLead]

\* 9. Lead time.
leadTimeOf(mode, auto, selectedPrinterKey, compat, bedCyclesEstimate, finalEstimatedHours, segmentationTier) ==
  LET lt == pricingMatrix.leadTime
      own == IF selectedPrinterKey \in DOMAIN PrinterFleet /\ PrinterFleet[selectedPrinterKey] # 0
             THEN PrinterFleet[selectedPrinterKey] ELSE 1
      eligibleFleetCount ==
        IF mode = "Bed-Cycle Mode"
        THEN (IF ~auto THEN own ELSE fleetSum(compat))
        ELSE 0
      \* cyclesPerDay in tenths
      cyclesPerDay10 == Max2(10, eligibleFleetCount * lt.utilizationFactor)
      baseDays == IF mode = "Bed-Cycle Mode"
                  THEN CeilDiv(bedCyclesEstimate * 10, cyclesPerDay10)
                  ELSE CeilDiv(finalEstimatedHours, 12)
      segmentationAddDays == lt.segmentationExtraDays[segmentationTier]
      minLead == Max2(lt.minDays, baseDays + segmentationAddDays)
      maxLead == CeilDiv(minLead * 14, 10)
  IN  [min |-> Min2(minLead, lt.maxDaysCap), max |-> Min2(maxLead, lt.maxDaysCap)]

\* ---- Errors thrown (message texts of the source) ------------------------
ErrFilament == "Filament requirements not found"
ErrNoCompatiblePrinter == "No available printer is compatible with the requirements"
ErrPrinterSelection == "Could not determine a suitable printer for the job."
ErrEstimator == "The AI model failed to provide an estimation. Please try again later."

Failure(e) == [ok |-> FALSE, error |-> e]

\* 4.-10. Everything after the printer was selected.  The Quote's bbox_mm is
\* the (rescaled) bbox_mm object of the metrics; it is recorded here by value,
\* as the caller receives it when the Quote is returned.
quoteFor(metrics, bbox, input, estimation, rm, compat, sel, warnings0) ==
  LET nozzleSize == input.nozzleSize
      selectedPrinter == Printers[sel.key]
      estimatedHours == estimation.printTimeHours
      maxDimAfterScaling == Max3(bbox.x, bbox.y, bbox.z)
      segmentationRequired == ~FitsBuild(selectedPrinter.build, bbox)
      jobScale == jobScaleOf(segmentationRequired, maxDimAfterScaling, estimatedHours)
      mode == modeOf(jobScale)
      bedCycle == mode = "Bed-Cycle Mode"
      segmentCountEstimate ==
        IF bedCycle /\ segmentationRequired
        THEN segmentCount(bbox, selectedPrinter.build) ELSE 1
      bedCyclesEstimate == IF bedCycle THEN segmentCountEstimate ELSE 0
      finalEstimatedHours ==
        IF bedCycle THEN bedCyclesEstimate * selectedPrinter.bedCycleHours
        ELSE estimatedHours
      maxAuto == pricingMatrix.segmentation.maxAutoSegments
      maxSegments == IF sel.key \in DOMAIN maxAuto /\ maxAuto[sel.key] # 0
                     THEN maxAuto[sel.key] ELSE 999
      segmentationTier == IF bedCycle THEN tierOf(segmentCountEstimate) ELSE "none"
      machineCost ==
        IF bedCycle
        THEN JMul(Money(bedCyclesEstimate), Lookup(selectedPrinter.bedCycleRates, nozzleSize))
        ELSE JMul(Money(finalEstimatedHours), Lookup(selectedPrinter.hourlyRates, nozzleSize))
      segmentationCost ==
        IF bedCycle
        THEN Money(segmentCountEstimate * pricingMatrix.segmentation.seamsPerSegmentDefault
                   * pricingMatrix.segmentation.bondingLaborPerSeam)
        ELSE Money(0)
      riskCost ==
        IF bedCycle
        THEN riskCostOf(JAdd(machineCost, segmentationCost), segmentationTier, rm)
        ELSE Money(0)
      materialCost == Money(estimation.materialGrams * Filaments[input.material].sellPricePerGram)
      complexity == complexityOf(metrics.triangles)
      longJob == finalEstimatedHours > pricingMatrix.multipliers.longJob.thresholdHours
      sub0 == JAdd(JAdd(machineCost, segmentationCost), riskCost)
      sub1 == JTenths(sub0, pricingMatrix.segmentation.segmentationModeMultipliers[segmentationTier])
      sub2 == JTenths(sub1, pricingMatrix.multipliers.complexity.multipliers[complexity])
      sub3 == IF longJob THEN JTenths(sub2, pricingMatrix.multipliers.longJob.multiplier) ELSE sub2
      totalCost == JAdd(sub3, materialCost)
      warnings ==
        warnings0
        \o (IF bedCycle THEN << <<"Large assembly detected: bed-cycle mode enforced.", "">> >> ELSE << >>)
        \o (IF bedCycle /\ segmentationRequired
            THEN << <<"Model exceeds build volume: segmentation required.", "">> >> ELSE << >>)
        \o (IF bedCycle /\ segmentCountEstimate > maxSegments
            THEN << <<"High segment count. Manual review may be required.", selectedPrinter.label>> >>
            ELSE << >>)
        \o (IF bedCycle /\ segmentationTier = "heavy"
            THEN << <<"Heavy segmentation: increased seam count and extended lead time.", "">> >>
            ELSE << >>)
        \o (IF complexity = "high"
            THEN << <<"Complexity high: manual review recommended.", "">> >> ELSE << >>)
        \o (IF longJob
            THEN << <<"Long job multiplier applied due to extended print time.", "">> >> ELSE << >>)
        \o (IF ~metrics.watertight_est
            THEN << <<"Non-watertight mesh may affect volume/time estimates and print quality.", "">> >>
            ELSE << >>)
  IN  [ok |-> TRUE,
       quote |->
         [mode |-> mode,
          jobScale |-> jobScale,
          selectedPrinterKey |-> sel.key,
          selectedNozzle |-> nozzleSize,
          selectedFilament |-> input.material,
          bbox_mm |-> bbox,
          volume_cm3 |-> metrics.volume_mm3 \div 1000,
          segmentCountEstimate |-> segmentCountEstimate,
          bedCyclesEstimate |-> bedCyclesEstimate,
          estimatedHours |-> finalEstimatedHours,
          segmentationTier |-> segmentationTier,
          leadTimeDays |-> leadTimeOf(mode, sel.auto, sel.key, compat, bedCyclesEstimate,
                                      finalEstimatedHours, segmentationTier),
          costBreakdown |->
            [machine |-> machineCost,
             material |-> materialCost,
             segmentation |-> segmentationCost,
             risk |-> riskCost,
             shippingEmbedded |-> Money(finalEstimatedHours
                                        * pricingMatrix.meta.shippingEmbedded.embeddedPerHour),
             total |-> totalCost],
          warnings |-> warnings]]

\* quoteGenerator from the resumption after `await estimationFlow(input)` to
\* its return or throw.  `metrics` is the record as it is in memory at that
\* moment; the result of step 2 is written back into it (see
\* EstimatorReturns), so `scaled.bbox` is also the record's new bbox_mm.
afterEstimation(metrics, input, estimation, rm) ==
  LET scaled == UnitSanity(metrics.bbox_mm)
      bbox == scaled.bbox
  IN  IF input.material \notin DOMAIN Filaments
      THEN Failure(ErrFilament)
      ELSE LET compat == compatiblePrinters(Filaments[input.material].requirements)
               sel == selectPrinter(input.autoPrinterSelection, input.selectedPrinterKey,
                                    input.material, compat, bbox, input.nozzleSize)
           IN  IF Len(compat) = 0 THEN Failure(ErrNoCompatiblePrinter)
               ELSE IF ~TruthyKey(sel.key) THEN Failure(ErrPrinterSelection)
               ELSE quoteFor(metrics, bbox, input, estimation, rm, compat, sel,
                             scaled.warnings \o capsWarnings \o sel.warnings)

\* ---- Inputs --------------------------------------------------------------
Mesh(x, y, z, triangles, watertight) ==
  [format |-> "stl", units |-> "millimeter", triangles |-> triangles,
   bbox_mm |-> [x |-> x, y |-> y, z |-> z],
   surface_area_mm2 |-> 6 * (x \div 10) * (y \div 10),
   volume_mm3 |-> 1000 * (z \div 10),
   watertight_est |-> watertight]

\* MeshMetrics records as analyzeMeshFile may return them.  The extents are
\* multiples of the scale divisors, so the rescaling division is exact.
MeshSamples ==
  {Mesh(0, 0, 0, 0, TRUE),
   Mesh(100, 100, 100, 12, TRUE),
   Mesh(250, 250, 100, 12, TRUE),
   Mesh(390, 100, 100, 12, TRUE),
   Mesh(100, 100, 390, 200000, TRUE),
   Mesh(280, 280, 280, 12, FALSE),
   Mesh(600, 300, 300, 600000, TRUE),
   Mesh(7000, 1000, 1000, 12, TRUE),
   Mesh(70000, 10000, 10000, 12, TRUE)}

Materials == {"PLA", "ABS", "ASA", "PC", "PEEK", "TPU"}
NozzleSizes == {"0.4", "0.6", "0.5"}
AutoFlags == {"true", "false", Undefined}
PreferredKeys == {Undefined, "", "mini", "wide", "ghost"}

Inputs ==
  [material : Materials, nozzleSize : NozzleSizes,
   autoPrinterSelection : AutoFlags, selectedPrinterKey : PreferredKeys]

\* Baselines the Estimator may return (positive, finite).
Estimations == [printTimeHours : {5, 30, 48}, materialGrams : {50, 200}]

\* The concurrent runs use fewer inputs.
ConcSamples == {Mesh(100, 100, 100, 12, TRUE), Mesh(7000, 1000, 1000, 12, TRUE)}
ConcInputs ==
  [material : {"PLA"}, nozzleSize : {"0.4"},
   autoPrinterSelection : {"true"}, selectedPrinterKey : {Undefined, "mini"}]
ConcEstimations == [printTimeHours : {5}, materialGrams : {50}]

\* ==== Mesh Analyzer (src/src/lib/mesh-analyzer.ts, lines 395-862) ==========
\* The file holds two revisions of the analyzer one after the other; the second
\* one (with the AMF parser) is the one modelled.
\*
\* Numbers.  A coordinate of a 3MF or AMF file is multiplied by the unit
\* conversion factor f of the file as it is read.  A number of the analyzer is
\* the exact value (n / d) * f^k: a rational times a power of that factor.
\* Every sum the code forms adds numbers of the same power (or zero), and 0 has
\* power 0.  Rounding of the floating-point operations is not modelled.
RECURSIVE GCD(_, _)
GCD(a, b) == IF b = 0 THEN a ELSE GCD(b, a % b)
Abs(n) == IF n < 0 THEN -n ELSE n
Q(n, d, k) ==
  IF n = 0 THEN [n |-> 0, d |-> 1, k |-> 0]
  ELSE LET g == GCD(Abs(n), d) IN [n |-> n \div g, d |-> d \div g, k |-> k]
Zero == Q(0, 1, 0)
One == Q(1, 1, 0)
QAdd(a, b) ==
  IF a.n = 0 THEN b ELSE IF b.n = 0 THEN a
  ELSE Q(a.n * b.d + b.n * a.d, a.d * b.d, a.k)
QSub(a, b) == QAdd(a, [b EXCEPT !.n = -b.n])
QMul(a, b) == Q(a.n * b.n, a.d * b.d, a.k + b.k)
QLeq(a, b) == a.n * b.d <= b.n * a.d
QAbs(a) == [a EXCEPT !.n = Abs(a.n)]
\* Math.min / Math.max over a non-empty set of numbers
QMinOf(S) == CHOOSE a \in S : \A b \in S : QLeq(a, b)
QMaxOf(S) == CHOOSE a \in S : \A b \in S : QLeq(b, a)
\* Math.sqrt of an integer times f^(2j): exact on perfect squares, rounded
\* down to an integer otherwise
RECURSIVE SqrtFrom(_, _)
SqrtFrom(n, r) == IF (r + 1) * (r + 1) > n THEN r ELSE SqrtFrom(n, r + 1)
QSqrt(a) == Q(SqrtFrom(a.n \div a.d, 0), 1, a.k \div 2)
\* parseFloat of a decimal integer token
parseFloat(x) == Q(x, 1, 0)
\* the unit conversion factor f of the file, as a number
UnitFactor == [n |-> 1, d |-> 1, k |-> 1]

\* const conversionFactors: the value of f for each unit, as n / d
conversionFactors ==
  [millimeter |-> [n |-> 1, d |-> 1], centimeter |-> [n |-> 10, d |-> 1],
   meter |-> [n |-> 1000, d |-> 1], micron |-> [n |-> 1, d |-> 1000],
   inch |-> [n |-> 127, d |-> 5], foot |-> [n |-> 1524, d |-> 5]]

\* ---- Vector math (Vec3 = <<x, y, z>>, Triangle = <<v0, v1, v2>>) ----------
subtract(a, b) == <<QSub(a[1], b[1]), QSub(a[2], b[2]), QSub(a[3], b[3])>>
cross(a, b) ==
  <<QSub(QMul(a[2], b[3]), QMul(a[3], b[2])),
    QSub(QMul(a[3], b[1]), QMul(a[1], b[3])),
    QSub(QMul(a[1], b[2]), QMul(a[2], b[1]))>>
dot(a, b) == QAdd(QAdd(QMul(a[1], b[1]), QMul(a[2], b[2])), QMul(a[3], b[3]))
magnitude(a) == QSqrt(QAdd(QAdd(QMul(a[1], a[1]), QMul(a[2], a[2])), QMul(a[3], a[3])))

\* ---- Errors of the analyzer ---------------------------------------------
\* An error message is <<head, detail>>: the text up to the first ':' and the
\* rest (a sequence of texts and values).  Library and TypeError texts have neither prefix tested below.
Thrown(name, head, detail) ==
  [ok |-> FALSE, error |-> [name |-> name, message |-> <<head, detail>>]]
startsWith(message, prefix) == message[1] = prefix
\* reading a property of undefined, calling a missing method, spreading undefined
TypeError(what) == Thrown("TypeError", what, << >>)

\* ---- Geometry reducer ----------------------------------------------------
\* The three sides of a triangle; the key of a side is the sorted pair of its
\* end points' coordinate texts, i.e. the unordered pair of the end points.
edgesOf(tri) == << <<tri[1], tri[2]>>, <<tri[2], tri[3]>>, <<tri[3], tri[1]>> >>
edgeKey(edge) == {edge[1], edge[2]}

\* edgeCounts: for each key the number of sides, over all triangles, with it
edgeCounts(triangles) ==
  LET sides == (1..Len(triangles)) \X (1..3)
      keyOf(s) == edgeKey(edgesOf(triangles[s[1]])[s[2]])
  IN  [key \in {keyOf(s) : s \in sides} |->
         Cardinality({s \in sides : keyOf(s) = key})]

RECURSIVE surfaceSum(_)
surfaceSum(triangles) ==
  IF triangles = << >> THEN Zero
  ELSE LET tri == Head(triangles)
           edge1 == subtract(tri[2], tri[1])
           edge2 == subtract(tri[3], tri[1])
       IN  QAdd(QMul(Q(1, 2, 0), magnitude(cross(edge1, edge2))),
                surfaceSum(Tail(triangles)))

RECURSIVE volumeSum(_)
volumeSum(triangles) ==
  IF triangles = << >> THEN Zero
  ELSE LET tri == Head(triangles)
       IN  QAdd(QMul(dot(tri[1], cross(tri[2], tri[3])), Q(1, 6, 0)),
                volumeSum(Tail(triangles)))

\* vertices[i] for an i that is not an index of the array: undefined
MissingVertex == << >>
HasMissingVertex(triangles) ==
  \E t \in 1..Len(triangles) : \E j \in 1..3 : triangles[t][j] = MissingVertex

\* Variant: the signed volume is returned without Math.abs.
calculateMetricsSignedVolume(triangles, unit_conversion_factor) ==
  IF Len(triangles) = 0
  THEN [ok |-> TRUE,
        metrics |-> [bbox_mm |-> [x |-> Zero, y |-> Zero, z |-> Zero],
                     volume_mm3 |-> Zero, surface_area_mm2 |-> Zero,
                     triangles |-> 0, watertight_est |-> TRUE]]
  ELSE IF HasMissingVertex(triangles)
  THEN TypeError("Cannot read properties of undefined")
  ELSE LET coords(i) == {triangles[t][j][i] : t \in 1..Len(triangles), j \in 1..3}
           extent(i) == QMul(QSub(QMaxOf(coords(i)), QMinOf(coords(i))), unit_conversion_factor)
           counts == edgeCounts(triangles)
           u2 == QMul(unit_conversion_factor, unit_conversion_factor)
           u3 == QMul(u2, unit_conversion_factor)
       IN  [ok |-> TRUE,
            metrics |-> [bbox_mm |-> [x |-> extent(1), y |-> extent(2), z |-> extent(3)],
                         volume_mm3 |-> QMul(volumeSum(triangles), u3),
                         surface_area_mm2 |-> QMul(surfaceSum(triangles), u2),
                         triangles |-> Len(triangles),
                         watertight_est |-> \A key \in DOMAIN counts : counts[key] = 2]]

\* calculateMetricsFromTriangles: a missing (undefined) vertex raises a
\* TypeError at its first use.
calculateMetricsFromTriangles(triangles, unit_conversion_factor) ==
  IF Len(triangles) = 0
  THEN [ok |-> TRUE,
        metrics |-> [bbox_mm |-> [x |-> Zero, y |-> Zero, z |-> Zero],
                     volume_mm3 |-> Zero, surface_area_mm2 |-> Zero,
                     triangles |-> 0, watertight_est |-> TRUE]]
  ELSE IF HasMissingVertex(triangles)
  THEN TypeError("Cannot read properties of undefined")
  ELSE LET coords(i) == {triangles[t][j][i] : t \in 1..Len(triangles), j \in 1..3}
           extent(i) == QMul(QSub(QMaxOf(coords(i)), QMinOf(coords(i))), unit_conversion_factor)
           counts == edgeCounts(triangles)
           u2 == QMul(unit_conversion_factor, unit_conversion_factor)
           u3 == QMul(u2, unit_conversion_factor)
       IN  [ok |-> TRUE,
            metrics |-> [bbox_mm |-> [x |-> extent(1), y |-> extent(2), z |-> extent(3)],
                         volume_mm3 |-> QMul(QAbs(volumeSum(triangles)), u3),
                         surface_area_mm2 |-> QMul(surfaceSum(triangles), u2),
                         triangles |-> Len(triangles),
                         watertight_est |-> \A key \in DOMAIN counts : counts[key] = 2]]

\* ---- Buffers -------------------------------------------------------------
\* A buffer is described by what the parsers read from it:
\*   kind "binary": a binary STL layout: length in bytes, whether the first
\*     five bytes are 'solid', the uint32 at offset 80 and the complete
\*     50-byte records that follow the 84-byte header;
\*   kind "text": lines of text, each [type, coords, refs]: the first token of
\*     the trimmed line, the three decimal integers after it on a 'vertex' or
\*     'v' line, and for an 'f' line the parseInt of each token's text before
\*     its first '/';
\*   kind "xml": an XML document: root element, unit attribute, objects;
\*   kind "zip": a zip archive: entries with path, size and document, and the
\*     number of further entries that are not '.model' files.
\* The bytes of a "text", "xml" or "zip" buffer do not form a binary STL (the
\* uint32 at offset 80 of a text is above 150 million), and the text of a
\* "binary", "xml" or "zip" buffer has no line starting with vertex, v or f.
linesOf(buffer) == IF buffer.kind = "text" THEN buffer.lines ELSE << >>

isBinary(buf) ==
  IF buf.length < 84 THEN FALSE
  ELSE IF buf.kind # "binary" \/ buf.solid THEN FALSE
  ELSE LET numTriangles == buf.numTriangles
           expectedSize == 84 + numTriangles * 50
       IN  buf.length >= expectedSize

Vec(p) == <<parseFloat(p[1]), parseFloat(p[2]), parseFloat(p[3])>>

parseStlBinary(buffer) ==
  [i \in 1..buffer.numTriangles |->
     <<Vec(buffer.records[i][1]), Vec(buffer.records[i][2]), Vec(buffer.records[i][3])>>]

parseStlAscii(buffer) ==
  LET vertexLines == SelectSeq(linesOf(buffer), LAMBDA line : line.type = "vertex")
  IN  [i \in 1..(Len(vertexLines) \div 3) |->
         <<Vec(vertexLines[3 * i - 2].coords), Vec(vertexLines[3 * i - 1].coords),
           Vec(vertexLines[3 * i].coords)>>]

\* A note is <<text, argument>>.
Note(text) == <<text, "">>

\* The fields a parser adds to the reducer's metrics.
withFormat(reduced, format, units, notes) ==
  IF ~reduced.ok THEN reduced
  ELSE [ok |-> TRUE,
        metrics |-> [format |-> format, units |-> units, notes |-> notes,
                     triangles |-> reduced.metrics.triangles,
                     bbox_mm |-> reduced.metrics.bbox_mm,
                     surface_area_mm2 |-> reduced.metrics.surface_area_mm2,
                     volume_mm3 |-> reduced.metrics.volume_mm3,
                     watertight_est |-> reduced.metrics.watertight_est]]

analyzeStl(buffer) ==
  LET triangles == IF isBinary(buffer) THEN parseStlBinary(buffer) ELSE parseStlAscii(buffer)
  IN  withFormat(calculateMetricsFromTriangles(triangles, One), "stl", "unknown_assumed_mm", << >>)

\* ---- OBJ ------------------------------------------------------------------
\* Variant: a reference that names no vertex of the pool is kept as a missing
\* vertex.
RECURSIVE faceVerticesOfUnchecked(_, _)
faceVerticesOfUnchecked(parts, vertices) ==
  IF parts = << >> THEN << >>
  ELSE LET parsed == Head(parts)
           index == IF parsed.v < 0 THEN Len(vertices) + parsed.v ELSE parsed.v - 1
           rest == faceVerticesOfUnchecked(Tail(parts), vertices)
       IN  IF parsed.nan THEN rest
           ELSE IF index >= 0 /\ index < Len(vertices) THEN <<vertices[index + 1]>> \o rest
           ELSE << << >> >> \o rest

\* Variant: a negative reference counts from the first vertex of the pool.
RECURSIVE faceVerticesOfFromStart(_, _)
faceVerticesOfFromStart(parts, vertices) ==
  IF parts = << >> THEN << >>
  ELSE LET parsed == Head(parts)
           index == IF parsed.v < 0 THEN -parsed.v - 1 ELSE parsed.v - 1
           rest == faceVerticesOfFromStart(Tail(parts), vertices)
       IN  IF parsed.nan THEN rest
           ELSE IF index >= 0 /\ index < Len(vertices) THEN <<vertices[index + 1]>> \o rest
           ELSE rest

\* The vertices an 'f' line resolves, given the pool read so far.
RECURSIVE faceVerticesOf(_, _)
faceVerticesOf(parts, vertices) ==
  IF parts = << >> THEN << >>
  ELSE LET parsed == Head(parts)
           index == IF parsed.v < 0 THEN Len(vertices) + parsed.v ELSE parsed.v - 1
           rest == faceVerticesOf(Tail(parts), vertices)
       IN  IF parsed.nan THEN rest
           ELSE IF index >= 0 /\ index < Len(vertices) THEN <<vertices[index + 1]>> \o rest
           ELSE rest

\* Fan from the first vertex: (v0, v[i], v[i+1]) for i = 1 .. length - 2.
fanOf(faceVertices) ==
  [i \in 1..(Len(faceVertices) - 2) |->
     <<faceVertices[1], faceVertices[i + 1], faceVertices[i + 2]>>]

\* Variant: a face of more than three vertices contributes its first triangle only.
objLineFirstTriangleOnly(acc, line) ==
  IF line.type = "v"
  THEN [acc EXCEPT !.vertices = Append(@, Vec(line.coords))]
  ELSE IF line.type = "f"
  THEN LET faceVertices == faceVerticesOf(line.refs, acc.vertices)
       IN  IF Len(faceVertices) > 2
           THEN [vertices |-> acc.vertices,
                 triangles |-> acc.triangles \o SubSeq(fanOf(faceVertices), 1, 1),
                 notes |-> IF Len(faceVertices) > 3
                              /\ Note("triangulated_ngons") \notin SetOf(acc.notes)
                           THEN Append(acc.notes, Note("triangulated_ngons"))
                           ELSE acc.notes]
           ELSE acc
  ELSE acc

\* One iteration of the loop over the lines: acc = [vertices, triangles, notes].
objLine(acc, line) ==
  IF line.type = "v"
  THEN [acc EXCEPT !.vertices = Append(@, Vec(line.coords))]
  ELSE IF line.type = "f"
  THEN LET faceVertices == faceVerticesOf(line.refs, acc.vertices)
       IN  IF Len(faceVertices) > 2
           THEN [vertices |-> acc.vertices,
                 triangles |-> acc.triangles \o fanOf(faceVertices),
                 notes |-> IF Len(faceVertices) > 3
                              /\ Note("triangulated_ngons") \notin SetOf(acc.notes)
                           THEN Append(acc.notes, Note("triangulated_ngons"))
                           ELSE acc.notes]
           ELSE acc
  ELSE acc

RECURSIVE objLines(_, _)
objLines(acc, lines) ==
  IF lines = << >> THEN acc ELSE objLines(objLine(acc, Head(lines)), Tail(lines))

\* text.includes(' -'): some token after the first one starts with '-'
hasSpaceMinus(lines) ==
  \E i \in 1..Len(lines) :
    \/ \E j \in 1..Len(lines[i].coords) : lines[i].coords[j] < 0
    \/ \E j \in 1..Len(lines[i].refs) : ~lines[i].refs[j].nan /\ lines[i].refs[j].v < 0

analyzeObj(bufferOrText) ==
  LET lines == linesOf(bufferOrText)
      parsed == objLines([vertices |-> << >>, triangles |-> << >>, notes |-> << >>], lines)
      notes == IF hasSpaceMinus(lines)
               THEN Append(parsed.notes, Note("negative_indices_supported")) ELSE parsed.notes
  IN  withFormat(calculateMetricsFromTriangles(parsed.triangles, One),
                 "obj", "unknown_assumed_mm", notes)

\* ---- XML documents (3MF model part, AMF) ------------------------------------
\* A document is [root, unit, objects, transform]; an object is [hasMesh,
\* vertices, triangles, volumes]: the <vertex> elements, the <triangle>
\* elements of a 3MF mesh and the <volume> elements of an AMF mesh (each a
\* list of triangles).  A triangle is <<v1, v2, v3>>, each the parseInt of the
\* index text.  XMLParser.parse yields no key for an absent child, the child
\* itself for a single child and an array for two or more children; a buffer
\* that is no XML document parses to an object without the root key.
NoDocument == [root |-> "", unit |-> Undefined, objects |-> << >>, transform |-> FALSE]
documentOf(buffer) == IF buffer.kind = "xml" THEN buffer.doc ELSE NoDocument

UnitNames == {"millimeter", "centimeter", "meter", "micron", "inch", "foot"}

\* Variant: the z coordinate is left in the unit of the file.
scaledVertexFlatZ(p) ==
  <<QMul(parseFloat(p[1]), UnitFactor), QMul(parseFloat(p[2]), UnitFactor), parseFloat(p[3])>>

\* [parseFloat(x) * f, parseFloat(y) * f, parseFloat(z) * f]
scaledVertex(p) ==
  <<QMul(parseFloat(p[1]), UnitFactor), QMul(parseFloat(p[2]), UnitFactor),
    QMul(parseFloat(p[3]), UnitFactor)>>

\* array[i] for a parsed index i (0-based): undefined unless 0 <= i < length
elementAt(array, i) ==
  IF ~i.nan /\ i.v >= 0 /\ i.v < Len(array) THEN array[i.v + 1] ELSE MissingVertex

ErrAmfIndex == Thrown("Error", "PARSE_ERROR", <<"AMF triangle index out of bounds.">>)

\* Variant: a triangle with an index that is no index of the pool is dropped.
RECURSIVE amfTrianglesDropping(_, _)
amfTrianglesDropping(trianglesRaw, vertices) ==
  IF trianglesRaw = << >> THEN [ok |-> TRUE, triangles |-> << >>]
  ELSE LET t == Head(trianglesRaw)
           rest == amfTrianglesDropping(Tail(trianglesRaw), vertices)
       IN  IF \E j \in 1..3 : elementAt(vertices, t[j]) = MissingVertex
           THEN rest
           ELSE [ok |-> TRUE,
                 triangles |-> << <<elementAt(vertices, t[1]), elementAt(vertices, t[2]),
                                    elementAt(vertices, t[3])>> >> \o rest.triangles]

\* The loop over the triangles of one volume: the first triangle with an index
\* >= vertices.length throws; a negative or NaN index passes the test and
\* reads undefined.
RECURSIVE amfTriangles(_, _)
amfTriangles(trianglesRaw, vertices) ==
  IF trianglesRaw = << >> THEN [ok |-> TRUE, triangles |-> << >>]
  ELSE LET t == Head(trianglesRaw)
           rest == amfTriangles(Tail(trianglesRaw), vertices)
       IN  IF \E j \in 1..3 : ~t[j].nan /\ t[j].v >= Len(vertices)
           THEN ErrAmfIndex
           ELSE IF ~rest.ok THEN rest
           ELSE [ok |-> TRUE,
                 triangles |-> << <<elementAt(vertices, t[1]), elementAt(vertices, t[2]),
                                    elementAt(vertices, t[3])>> >> \o rest.triangles]

\* The loop over the volumes of one object (a volume without triangles is
\* skipped).
RECURSIVE amfVolumes(_, _)
amfVolumes(volumes, vertices) ==
  IF volumes = << >> THEN [ok |-> TRUE, triangles |-> << >>]
  ELSE LET first == amfTriangles(Head(volumes), vertices)
           rest == amfVolumes(Tail(volumes), vertices)
       IN  IF ~first.ok THEN first
           ELSE IF ~rest.ok THEN rest
           ELSE [ok |-> TRUE, triangles |-> first.triangles \o rest.triangles]

\* One object: .map on the vertex list needs an array (two or more <vertex>);
\* a mesh without <volume> gives [undefined], whose .triangle cannot be read.
amfObject(obj) ==
  IF ~obj.hasMesh THEN [ok |-> TRUE, triangles |-> << >>]
  ELSE IF Len(obj.vertices) < 2 THEN TypeError("verticesRaw.map is not a function")
  ELSE IF Len(obj.volumes) = 0 THEN TypeError("Cannot read properties of undefined")
  ELSE amfVolumes(obj.volumes, [i \in 1..Len(obj.vertices) |-> scaledVertex(obj.vertices[i])])

RECURSIVE amfObjects(_)
amfObjects(objects) ==
  IF objects = << >> THEN [ok |-> TRUE, triangles |-> << >>]
  ELSE LET first == amfObject(Head(objects))
           rest == amfObjects(Tail(objects))
       IN  IF ~first.ok THEN first
           ELSE IF ~rest.ok THEN rest
           ELSE [ok |-> TRUE, triangles |-> first.triangles \o rest.triangles]

analyzeAmf(buffer) ==
  LET amf == documentOf(buffer)
      declared == IF amf.root = "amf" /\ TruthyKey(amf.unit) THEN amf.unit ELSE "millimeter"
      recognized == declared \in UnitNames
      unit == IF recognized THEN declared ELSE "millimeter"
      multiVolume == \E i \in 1..Len(amf.objects) :
                        amf.objects[i].hasMesh /\ Len(amf.objects[i].volumes) > 1
      notes == (IF recognized THEN << >> ELSE <<Note("unit_missing_assumed_mm")>>)
               \o (IF Len(amf.objects) > 1 THEN <<Note("multi_object_combined")>> ELSE << >>)
               \o (IF multiVolume THEN <<Note("multi_volume_combined")>> ELSE << >>)
      parsed == amfObjects(amf.objects)
  IN  IF amf.root # "amf" \/ Len(amf.objects) = 0
      THEN TypeError("Cannot read properties of undefined")
      ELSE IF ~parsed.ok THEN parsed
      ELSE withFormat(calculateMetricsFromTriangles(parsed.triangles, One), "amf", unit, notes)

\* ---- 3MF -------------------------------------------------------------------
Lower ==
  ("A" :> "a") @@ ("D" :> "d") @@ ("E" :> "e") @@ ("F" :> "f") @@ ("J" :> "j")
  @@ ("L" :> "l") @@ ("M" :> "m") @@ ("O" :> "o") @@ ("S" :> "s") @@ ("T" :> "t")
  @@ ("B" :> "b")
\* String.prototype.toLowerCase, on a sequence of characters
toLowerCase(s) == [i \in 1..Len(s) |-> IF s[i] \in DOMAIN Lower THEN Lower[s[i]] ELSE s[i]]
startsWithChars(s, prefix) ==
  Len(s) >= Len(prefix) /\ SubSeq(s, 1, Len(prefix)) = prefix
endsWithChars(s, suffix) ==
  Len(s) >= Len(suffix) /\ SubSeq(s, Len(s) - Len(suffix) + 1, Len(s)) = suffix

MAX_UNCOMPRESSED_SIZE == 100 * 1024 * 1024
MAX_FILES == 1000

Last(S) == CHOOSE i \in S : \A j \in S : j <= i

\* Variant: the entries of the archive are not counted.
afterZipLoadedUncounted(buffer) ==
  IF buffer.kind # "zip"
  THEN Thrown("Error", "Can't find end of central directory", <<"is this a zip file ?">>)
  ELSE LET entries == buffer.entries
           in3d == {i \in 1..Len(entries) :
                      /\ startsWithChars(toLowerCase(entries[i].relativePath), <<"3", "d", "/">>)
                      /\ endsWithChars(toLowerCase(entries[i].relativePath),
                                       <<".", "m", "o", "d", "e", "l">>)}
           anywhere == {i \in 1..Len(entries) :
                          endsWithChars(toLowerCase(entries[i].relativePath),
                                        <<".", "m", "o", "d", "e", "l">>)}
       IN  IF in3d # {} THEN [ok |-> TRUE, modelFile |-> entries[Last(in3d)]]
           ELSE IF anywhere # {} THEN [ok |-> TRUE, modelFile |-> entries[Last(anywhere)]]
           ELSE Thrown("Error", "3MF PARSE_ERROR", <<"No .model file found in archive.">>)

\* From the resolution of JSZip.loadAsync to the next await: the model part
\* chosen (the last matching entry of each search), or the error thrown.
afterZipLoaded(buffer) ==
  IF buffer.kind # "zip"
  THEN Thrown("Error", "Can't find end of central directory", <<"is this a zip file ?">>)
  ELSE LET entries == buffer.entries
           fileCount == Len(entries) + buffer.otherEntries
           in3d == {i \in 1..Len(entries) :
                      /\ startsWithChars(toLowerCase(entries[i].relativePath), <<"3", "d", "/">>)
                      /\ endsWithChars(toLowerCase(entries[i].relativePath),
                                       <<".", "m", "o", "d", "e", "l">>)}
           anywhere == {i \in 1..Len(entries) :
                          endsWithChars(toLowerCase(entries[i].relativePath),
                                        <<".", "m", "o", "d", "e", "l">>)}
       IN  IF fileCount > MAX_FILES
           THEN Thrown("Error", "3MF PARSE_ERROR", <<"Too many files in archive (potential zip bomb).">>)
           ELSE IF in3d # {} THEN [ok |-> TRUE, modelFile |-> entries[Last(in3d)]]
           ELSE IF anywhere # {} THEN [ok |-> TRUE, modelFile |-> entries[Last(anywhere)]]
           ELSE Thrown("Error", "3MF PARSE_ERROR", <<"No .model file found in archive.">>)

\* The loop over the objects: acc = [allVertices, allTriangles, objectCount].
\* .map needs arrays: two or more <vertex> and two or more <triangle>.
RECURSIVE objects3mf(_, _)
objects3mf(acc, objects) ==
  IF objects = << >> THEN [ok |-> TRUE, acc |-> acc]
  ELSE LET obj == Head(objects)
           currentVertices == [i \in 1..Len(obj.vertices) |-> scaledVertex(obj.vertices[i])]
           vertexOffset == Len(acc.allVertices)
           allVertices == acc.allVertices \o currentVertices
           shifted(i) == IF i.nan THEN i ELSE Num(i.v + vertexOffset)
           meshTriangles ==
             [t \in 1..Len(obj.triangles) |->
                <<elementAt(allVertices, shifted(obj.triangles[t][1])),
                  elementAt(allVertices, shifted(obj.triangles[t][2])),
                  elementAt(allVertices, shifted(obj.triangles[t][3]))>>]
       IN  IF ~obj.hasMesh THEN objects3mf(acc, Tail(objects))
           ELSE IF Len(obj.vertices) < 2
           THEN TypeError("mesh.vertices.vertex.map is not a function")
           ELSE IF Len(obj.triangles) < 2
           THEN TypeError("mesh.triangles.triangle.map is not a function")
           ELSE objects3mf([allVertices |-> allVertices,
                            allTriangles |-> acc.allTriangles \o meshTriangles,
                            objectCount |-> acc.objectCount + 1],
                           Tail(objects))

\* From the resolution of modelFile.async('string') to the return or throw.
afterModelRead(modelFile) ==
  LET model == modelFile.doc
      isModel == model.root = "model"
      declared == IF isModel /\ TruthyKey(model.unit) THEN model.unit ELSE "millimeter"
      recognized == declared \in UnitNames
      unit == IF recognized THEN declared ELSE "millimeter"
      parsed == objects3mf([allVertices |-> << >>, allTriangles |-> << >>, objectCount |-> 0],
                           model.objects)
      notes == (IF recognized THEN << >> ELSE << <<"invalid_unit_assumed_mm", declared>> >>)
               \o (IF parsed.ok /\ parsed.acc.objectCount > 1
                   THEN <<Note("multi_object_combined")>> ELSE << >>)
               \o (IF model.transform THEN <<Note("transforms_ignored_mvp")>> ELSE << >>)
  IN  IF modelFile.length > MAX_UNCOMPRESSED_SIZE
      THEN Thrown("Error", "3MF PARSE_ERROR", <<"Uncompressed file size exceeds limit.">>)
      ELSE IF ~isModel \/ Len(model.objects) = 0
      THEN Thrown("Error", "PARSE_ERROR", <<"No resources found in 3MF file.">>)
      ELSE IF ~parsed.ok THEN parsed
      ELSE withFormat(calculateMetricsFromTriangles(parsed.acc.allTriangles, One),
                      "3mf", unit, notes)

\* ---- Router ----------------------------------------------------------------
\* String.prototype.lastIndexOf('.') (0-based, -1 when absent) and slice(from)
lastIndexOfDot(s) ==
  LET dots == {i \in 1..Len(s) : s[i] = "."}
  IN  IF dots = {} THEN -1 ELSE Last(dots) - 1
slice(s, from) ==
  LET start == IF from < 0 THEN Max2(Len(s) + from, 0) ELSE Min2(from, Len(s))
  IN  SubSeq(s, start + 1, Len(s))
extensionOf(fileName) == toLowerCase(slice(fileName, lastIndexOfDot(fileName)))

ExtStl == <<".", "s", "t", "l">>
ExtObj == <<".", "o", "b", "j">>
Ext3mf == <<".", "3", "m", "f">>
ExtAmf == <<".", "a", "m", "f">>

ErrUnsupported(extension) ==
  Thrown("Error", "UNSUPPORTED_FORMAT", <<"File type is not supported.", extension>>)

\* Variant: every error of a parser is rethrown as it is.
catchOfRethrowAll(thrown, extension) == thrown

\* The catch block: UNSUPPORTED_FORMAT and PARSE_ERROR errors are rethrown,
\* every other error is wrapped.
catchOf(thrown, extension) ==
  IF startsWith(thrown.error.message, "UNSUPPORTED_FORMAT") THEN thrown
  ELSE IF startsWith(thrown.error.message, "PARSE_ERROR") THEN thrown
  ELSE Thrown("Error", "PARSE_ERROR",
              <<"Failed to parse file. The file may be corrupt or malformed. Original error",
                extension, thrown.error.message>>)

\* ---- Files given to the analyzer ----------------------------------------------
\* The unit cube: corner number 4i + 2j + k (0-based) is (i, j, k); the six
\* faces as quadrilaterals seen from outside, counter-clockwise.
CubeCorners ==
  << <<0, 0, 0>>, <<0, 0, 1>>, <<0, 1, 0>>, <<0, 1, 1>>,
     <<1, 0, 0>>, <<1, 0, 1>>, <<1, 1, 0>>, <<1, 1, 1>> >>
CubeFaces ==
  << <<0, 2, 6, 4>>, <<1, 5, 7, 3>>, <<0, 4, 5, 1>>,
     <<2, 3, 7, 6>>, <<0, 1, 3, 2>>, <<4, 6, 7, 5>> >>
\* twelve triangles of corner numbers, wound outwards
CubeIndexTriangles ==
  [t \in 1..12 |->
     LET q == CubeFaces[(t + 1) \div 2]
     IN  IF t % 2 = 1 THEN <<q[1], q[2], q[3]>> ELSE <<q[1], q[3], q[4]>>]
\* the corners of the cube of side s with corner 0 at o
CubeVertices(s, o) ==
  [c \in 1..8 |-> <<o[1] + s * CubeCorners[c][1], o[2] + s * CubeCorners[c][2],
                    o[3] + s * CubeCorners[c][3]>>]
\* its triangles, wound outwards or (all of them) inwards
CubeTriangles(s, o, outwards) ==
  LET v == CubeVertices(s, o)
  IN  [t \in 1..12 |->
         LET i == CubeIndexTriangles[t]
         IN  IF outwards THEN <<v[i[1] + 1], v[i[2] + 1], v[i[3] + 1]>>
             ELSE <<v[i[2] + 1], v[i[1] + 1], v[i[3] + 1]>>]

\* Largest side of a sample cube.
MaxSide == 2
CubeOrigins == {<<0, 0, 0>>, <<1, 2, 3>>, <<-2, -1, 0>>}
CubeLists ==
  {CubeTriangles(s, o, w) : s \in 1..MaxSide, o \in CubeOrigins, w \in BOOLEAN}

\* Small triangle lists over three points, degenerate triangles included, and
\* an open fan of three triangles around one point.
SoupTriangles ==
  LET a == <<0, 0, 0>>
      b == <<2, 0, 0>>
      c == <<0, 2, 1>>
  IN  {<<a, b, c>>, <<a, c, b>>, <<b, c, a>>, <<a, b, a>>, <<a, a, c>>,
       <<b, b, a>>, <<c, c, c>>}
\* Longest triangle list over the soup triangles.
MaxSoup == 2
RECURSIVE SeqsUpTo(_, _)
SeqsUpTo(S, n) ==
  IF n = 0 THEN {<< >>}
  ELSE LET shorter == SeqsUpTo(S, n - 1)
       IN  shorter \cup {Append(q, x) : q \in {r \in shorter : Len(r) = n - 1}, x \in S}
OpenFan ==
  << << <<0, 0, 0>>, <<2, 0, 0>>, <<2, 2, 0>> >>,
     << <<0, 0, 0>>, <<2, 2, 0>>, <<0, 2, 0>> >>,
     << <<0, 0, 0>>, <<0, 2, 0>>, <<-2, 2, 0>> >> >>
TriangleLists == SeqsUpTo(SoupTriangles, MaxSoup) \cup {OpenFan} \cup CubeLists

\* A binary STL with the given records, declaring numTriangles of them, with the
\* given number of bytes after (or, negative, missing from) the last record.
BinaryStl(records, numTriangles, solid, extraBytes) ==
  [kind |-> "binary", length |-> 84 + 50 * Len(records) + extraBytes, solid |-> solid,
   numTriangles |-> numTriangles, records |-> records]
\* A text of the given lines.
TextOf(lines, length) == [kind |-> "text", length |-> length, lines |-> lines]

StlName == <<"c", ".", "s", "t", "l">>
ObjName == <<"c", ".", "o", "b", "j">>
AmfName == <<"c", ".", "a", "m", "f">>
Name3mf == <<"c", ".", "3", "m", "f">>

File(fileName, buffer) == [fileName |-> fileName, buffer |-> buffer]

\* Complete binary STL files of every sample triangle list.
GeometryFiles ==
  {File(StlName, BinaryStl(tris, Len(tris), FALSE, 0)) : tris \in TriangleLists}

\* Binary STL files whose length and declared count disagree, or that start
\* with 'solid', or that are shorter than the header.
OneTriangle == << << <<0, 0, 0>>, <<2, 0, 0>>, <<0, 2, 1>> >> >>
OddStlBuffers ==
  {BinaryStl(OneTriangle, 2, FALSE, 0),      \* one record of two declared
   BinaryStl(OneTriangle, 2, FALSE, 49),     \* second record cut short
   BinaryStl(OneTriangle, 1, FALSE, 7),      \* bytes after the last record
   BinaryStl(OneTriangle, 1, TRUE, 0),       \* header starts with 'solid'
   BinaryStl(OneTriangle, 0, FALSE, 0),      \* declares no triangle
   BinaryStl(<< >>, 1, FALSE, 0),            \* header only, one declared
   BinaryStl(<< >>, 0, FALSE, -4)}           \* shorter than the header

VLine(type, coords) == [type |-> type, coords |-> coords, refs |-> << >>]
FLine(refs) == [type |-> "f", coords |-> << >>, refs |-> refs]
Other(type) == [type |-> type, coords |-> << >>, refs |-> << >>]
AsciiStlBuffers ==
  {TextOf(<<Other("solid"), Other("endsolid")>>, 15),
   TextOf(<<Other("solid"), Other("facet"), Other("outer"),
            VLine("vertex", <<0, 0, 0>>), VLine("vertex", <<2, 0, 0>>),
            VLine("vertex", <<0, 2, 1>>), Other("endloop"), Other("endfacet"),
            Other("endsolid")>>, 120),
   TextOf(<<Other("solid"), VLine("vertex", <<0, 0, 0>>), VLine("vertex", <<2, 0, 0>>),
            Other("endsolid")>>, 50),
   TextOf(<< >>, 0)}

\* OBJ files: five 'v' lines, then up to MaxFaces 'f' lines; and one file whose
\* face comes before the vertices it names.
Ref(k) == Num(k)
PoolLines ==
  <<VLine("v", <<0, 0, 0>>), VLine("v", <<2, 0, 0>>), VLine("v", <<2, 2, 0>>),
    VLine("v", <<0, 2, 0>>), VLine("v", <<-1, 1, 0>>)>>
FaceLines ==
  {FLine(<<Ref(1), Ref(2), Ref(3)>>),
   FLine(<<Ref(1), Ref(2), Ref(3), Ref(4)>>),
   FLine(<<Ref(1), Ref(2), Ref(3), Ref(4), Ref(5)>>),
   FLine(<<Ref(-1), Ref(-2), Ref(-3), Ref(-4)>>),
   FLine(<<Ref(1), Ref(2), Ref(3), Ref(9)>>),
   FLine(<<Ref(1), Ref(0), Ref(2), Ref(-6)>>),
   FLine(<<Ref(1), NaN, Ref(2), Ref(3), Ref(4)>>),
   FLine(<<Ref(1), Ref(2)>>)}
\* Most 'f' lines of a sample OBJ file.
MaxFaces == 2
\* Files whose faces stand between the vertex lines: after three and after all
\* five of them.
InterleavedFaces ==
  {<<FLine(<<Ref(-1), Ref(-2), Ref(-3)>>), FLine(<<Ref(-1), Ref(-2), Ref(-3)>>)>>,
   <<FLine(<<Ref(1), Ref(2), Ref(-1)>>), FLine(<<Ref(1), Ref(-1), Ref(-2), Ref(4)>>)>>,
   <<FLine(<<Ref(1), Ref(2), Ref(5)>>), FLine(<<Ref(-5), Ref(-4), Ref(5)>>)>>,
   <<FLine(<<Ref(-4), Ref(-3), Ref(-2), Ref(-1)>>), FLine(<<Ref(3), Ref(4), Ref(-1)>>)>>}
ObjBuffers ==
  {TextOf(PoolLines \o faces, 100 + 10 * Len(faces)) : faces \in SeqsUpTo(FaceLines, MaxFaces)}
  \cup {TextOf(<<FLine(<<Ref(1), Ref(2), Ref(3), Ref(4)>>)>> \o PoolLines, 110)}
  \cup {TextOf(SubSeq(PoolLines, 1, 3) \o <<f[1]>> \o SubSeq(PoolLines, 4, 5) \o <<f[2]>>, 120) :
           f \in InterleavedFaces}

\* XML documents.  Indices are parsed integers or NaN.
Object(hasMesh, vertices, triangles, volumes) ==
  [hasMesh |-> hasMesh, vertices |-> vertices, triangles |-> triangles, volumes |-> volumes]
Document(root, unit, objects) ==
  [root |-> root, unit |-> unit, objects |-> objects, transform |-> FALSE]
XmlOf(doc, length) == [kind |-> "xml", length |-> length, doc |-> doc]
IndexTriple(t) == <<Num(t[1]), Num(t[2]), Num(t[3])>>
CubeIndices == [t \in 1..12 |-> IndexTriple(CubeIndexTriangles[t])]

DeclaredUnits == UnitNames \cup {Undefined, "", "parsec"}

\* AMF: the cube in every unit; meshes without triangles; one or two
\* triangles over three vertices with every kind of index.
ThreeVertices == << <<0, 0, 0>>, <<2, 0, 0>>, <<0, 2, 1>> >>
IndexSamples == {Num(0), Num(1), Num(2), Num(3), Num(-1), NaN}
AmfCube(unit, s, o) ==
  Document("amf", unit, <<Object(TRUE, CubeVertices(s, o), << >>, <<CubeIndices>>)>>)
AmfDocuments ==
  {AmfCube(u, s, <<1, 2, 3>>) : u \in DeclaredUnits, s \in 1..MaxSide}
  \cup {Document("amf", "millimeter", <<Object(TRUE, ThreeVertices, << >>, << <<t>> >>)>>) :
          t \in IndexSamples \X IndexSamples \X IndexSamples}
  \cup {Document("amf", "millimeter",
                 <<Object(TRUE, ThreeVertices, << >>,
                          << <<IndexTriple(<<0, 1, 2>>)>>, <<IndexTriple(<<0, 2, 1>>), t>> >>)>>) :
          t \in {<<Num(0), Num(1), Num(3)>>, <<Num(-1), Num(1), Num(2)>>,
                 <<Num(0), NaN, Num(2)>>, <<Num(2), Num(1), Num(0)>>}}
  \cup {Document("amf", "inch", <<Object(TRUE, ThreeVertices, << >>, << << >> >>)>>),
        Document("amf", "inch", <<Object(TRUE, ThreeVertices, << >>, << >>)>>),
        Document("amf", "inch", <<Object(TRUE, << >>, << >>, << << >> >>)>>),
        Document("amf", "inch", <<Object(FALSE, << >>, << >>, << >>)>>),
        Document("amf", "inch", << >>),
        Document("html", Undefined, << >>)}
AmfBuffers == {XmlOf(d, 200) : d \in AmfDocuments}

\* 3MF: archives with one model part, or with none.
Path3D == <<"3", "D", "/", "m", ".", "m", "o", "d", "e", "l">>
PathRoot == <<"m", ".", "M", "O", "D", "E", "L">>
PathRels == <<"_", "r", "e", "l", "s", "/", ".", "r", "e", "l", "s">>
Entry(relativePath, length, doc) ==
  [relativePath |-> relativePath, length |-> length, doc |-> doc]
ZipOf(entries, otherEntries) ==
  [kind |-> "zip", length |-> 300, entries |-> entries, otherEntries |-> otherEntries]
Cube3mf(unit, s, o) ==
  Document("model", unit, <<Object(TRUE, CubeVertices(s, o), CubeIndices, << >>)>>)
Documents3mf ==
  {Cube3mf(u, s, <<1, 2, 3>>) : u \in DeclaredUnits, s \in 1..MaxSide}
  \cup {Document("model", "meter", <<Object(TRUE, ThreeVertices, << >>, << >>)>>),
        Document("model", "meter", <<Object(TRUE, ThreeVertices, <<IndexTriple(<<0, 1, 2>>)>>, << >>)>>),
        Document("model", "meter",
                 <<Object(TRUE, ThreeVertices,
                          <<IndexTriple(<<0, 1, 2>>), IndexTriple(<<0, 2, 3>>)>>, << >>)>>),
        Document("model", "meter", <<Object(FALSE, << >>, << >>, << >>)>>),
        Document("model", "meter", << >>),
        NoDocument}
\* A model in inches of one triangle and its reverse.
TwoSided3mf ==
  Document("model", "inch",
           <<Object(TRUE, ThreeVertices, <<IndexTriple(<<0, 1, 2>>), IndexTriple(<<0, 2, 1>>)>>, << >>)>>)
Buffers3mf ==
  {ZipOf(<<Entry(PathRels, 10, NoDocument), Entry(Path3D, 200, d)>>, 1) : d \in Documents3mf}
  \cup {ZipOf(<<Entry(PathRoot, 200, Cube3mf("centimeter", 1, <<0, 0, 0>>))>>, 0),
        ZipOf(<<Entry(PathRels, 10, NoDocument)>>, 2),
        ZipOf(<<Entry(Path3D, 200, Cube3mf("centimeter", 1, <<0, 0, 0>>))>>, MAX_FILES),
        ZipOf(<<Entry(Path3D, MAX_UNCOMPRESSED_SIZE + 1, Cube3mf("centimeter", 1, <<0, 0, 0>>))>>, 0),
        ZipOf(<<Entry(Path3D, MAX_UNCOMPRESSED_SIZE + 1, NoDocument)>>, 0),
        ZipOf(<<Entry(Path3D, MAX_UNCOMPRESSED_SIZE, Cube3mf("centimeter", 1, <<0, 0, 0>>))>>, 0),
        ZipOf(<<Entry(Path3D, 200, Cube3mf("centimeter", 1, <<0, 0, 0>>))>>, MAX_FILES - 1),
        ZipOf(<<Entry(PathRels, 10, NoDocument)>>, MAX_FILES),
        ZipOf(<<Entry(Path3D, 200, Cube3mf("centimeter", 1, <<0, 0, 0>>)),
                Entry(PathRoot, 200, TwoSided3mf)>>, 0),
        ZipOf(<<Entry(PathRoot, 200, TwoSided3mf),
                Entry(Path3D, MAX_UNCOMPRESSED_SIZE + 1, Cube3mf("centimeter", 1, <<0, 0, 0>>))>>, 0)}

\* File names, and a few buffers given under every name.
NameSamples ==
  {StlName, ObjName, AmfName, Name3mf,
   <<"A", ".", "S", "T", "L">>, <<"a", ".", "b", ".", "O", "b", "j">>,
   <<"m", ".", "A", "M", "F">>, <<"m", ".", "3", "M", "F">>,
   <<"a", ".", "s", "t", "e", "p">>, <<"a", ".", "s", "t", "l", ".", "z", "i", "p">>,
   <<"s", "t", "l">>, <<"a", ".">>, << >>}
CrossBuffers ==
  {BinaryStl(CubeTriangles(1, <<0, 0, 0>>, TRUE), 12, FALSE, 0),
   BinaryStl(OneTriangle, 2, FALSE, 0),
   TextOf(PoolLines \o <<FLine(<<Ref(1), Ref(2), Ref(3), Ref(4)>>)>>, 110),
   XmlOf(AmfCube("centimeter", 1, <<0, 0, 0>>), 200),
   XmlOf(Document("amf", "meter",
                  <<Object(TRUE, ThreeVertices, << >>, << <<IndexTriple(<<0, 1, 3>>)>> >>)>>), 200),
   ZipOf(<<Entry(Path3D, 200, Cube3mf("centimeter", 1, <<0, 0, 0>>))>>, 0),
   ZipOf(<<Entry(PathRels, 10, NoDocument)>>, 0)}

Files ==
  GeometryFiles
  \cup {File(StlName, b) : b \in OddStlBuffers \cup AsciiStlBuffers}
  \cup {File(ObjName, b) : b \in ObjBuffers}
  \cup {File(AmfName, b) : b \in AmfBuffers}
  \cup {File(Name3mf, b) : b \in Buffers3mf}
  \cup {File(n, b) : n \in NameSamples, b \in CrossBuffers}

\* The files of the runs in which calls are repeated.
RepeatFiles ==
  {File(StlName, BinaryStl(CubeTriangles(1, <<0, 0, 0>>, TRUE), 12, FALSE, 0)),
   File(StlName, BinaryStl(OneTriangle, 2, FALSE, 0)),
   File(ObjName, TextOf(PoolLines \o <<FLine(<<Ref(1), Ref(2), Ref(3), Ref(4)>>)>>, 110)),
   File(AmfName, XmlOf(Document("amf", "meter",
                  <<Object(TRUE, ThreeVertices, << >>, << <<IndexTriple(<<0, 1, 3>>)>> >>)>>), 200)),
   File(Name3mf, ZipOf(<<Entry(Path3D, 200, Cube3mf("centimeter", 1, <<0, 0, 0>>))>>, 0)),
   File(<<"a", ".", "s", "t", "e", "p">>, TextOf(<< >>, 0))}

\* Largest parse_ms (Date.now() difference) of a sample run.
MaxParseMs == 1

\* ---- State ---------------------------------------------------------------
VARIABLES
  riskModel,   \* pricingMatrix.riskModel of the configuration snapshot
  heap,        \* the MeshMetrics records in memory, by identity
  pc,          \* per call: "idle", "awaitEst" (suspended at line 84), "done"
  arg,         \* per call: the identity of input.metrics
  input,       \* per call: the other fields of the input
  before,      \* per call: the value of input.metrics when the call was made
  estCalls,    \* per call: number of estimationFlow invocations made
  estimation,  \* per call: the baseline received
  result,      \* per call: the Quote returned or the error thrown
  mfile,       \* analyzeMeshFile: the {fileName, buffer} of the call in progress
  mpc,         \* analyzeMeshFile: "idle", "awaitZip", "awaitModel", "done"
  mresult,     \* analyzeMeshFile: the MeshMetrics returned or the error thrown
  mearlier,    \* per file: what the first completed analysis of it returned
  uiFile,      \* quote wizard: the state 'file', NoUiFile for null
  uiQuote,     \* quote wizard: the state 'quote' and the file it was computed from
  isLoading,   \* quote wizard: the state 'isLoading'
  uiError,     \* quote wizard: the state 'error', "" for null
  isDragging,  \* quote wizard: the state 'isDragging'
  pending      \* quote wizard: the handleGenerateQuote call in flight

quoteVars == <<riskModel, heap, pc, arg, input, before, estCalls, estimation, result>>
meshVars == <<mfile, mpc, mresult, mearlier>>
wizardVars == <<uiFile, uiQuote, isLoading, uiError, isDragging, pending>>
vars == <<riskModel, heap, pc, arg, input, before, estCalls, estimation, result,
          mfile, mpc, mresult, mearlier,
          uiFile, uiQuote, isLoading, uiError, isDragging, pending>>

NoInput == [material |-> "", nozzleSize |-> "", autoPrinterSelection |-> Undefined,
            selectedPrinterKey |-> Undefined]
NoEstimation == [printTimeHours |-> 0, materialGrams |-> 0]
NoResult == [ok |-> FALSE, error |-> ""]
NoMesh == Mesh(0, 0, 0, 0, TRUE)
NoFile == [fileName |-> << >>, buffer |-> [kind |-> "none", length |-> 0]]
NoAnalysis == [ok |-> FALSE, error |-> [name |-> "", message |-> <<"", << >> >>]]
NoUiFile == [name |-> << >>, size |-> 0]
NoQuote == [shown |-> FALSE, file |-> NoUiFile]
NoCall == [stage |-> "none", file |-> NoUiFile]

Init ==
  /\ riskModel \in RiskModels
  /\ heap = [m \in MetricIds |-> NoMesh]
  /\ pc = [c \in Calls |-> "idle"]
  /\ arg = [c \in Calls |-> 1]
  /\ input = [c \in Calls |-> NoInput]
  /\ before = [c \in Calls |-> NoMesh]
  /\ estCalls = [c \in Calls |-> 0]
  /\ estimation = [c \in Calls |-> NoEstimation]
  /\ result = [c \in Calls |-> NoResult]
  /\ mfile = NoFile
  /\ mpc = "idle"
  /\ mresult = NoAnalysis
  /\ uiFile = NoUiFile
  /\ uiQuote = NoQuote
  /\ isLoading = FALSE
  /\ uiError = ""
  /\ isDragging = FALSE
  /\ pending = NoCall
  /\ mearlier = [f \in RepeatFiles |-> NoAnalysis]

\* generateQuoteFromModel: analyzeMeshFile creates the MeshMetrics record of
\* an uploaded file.  No call is using the record that is replaced.
Analyze(m, mesh) ==
  /\ \A c \in Calls : pc[c] = "idle" \/ arg[c] # m
  /\ heap' = [heap EXCEPT ![m] = mesh]
  /\ UNCHANGED <<riskModel, pc, arg, input, before, estCalls, estimation, result>>
  /\ UNCHANGED meshVars
  /\ UNCHANGED wizardVars

\* quoteGenerator(input) up to its first suspension: estimationFlow(input) is
\* invoked and the call awaits it.
Call(c, m, in) ==
  /\ pc[c] = "idle"
  /\ pc' = [pc EXCEPT ![c] = "awaitEst"]
  /\ arg' = [arg EXCEPT ![c] = m]
  /\ input' = [input EXCEPT ![c] = in]
  /\ before' = [before EXCEPT ![c] = heap[m]]
  /\ estCalls' = [estCalls EXCEPT ![c] = 1]
  /\ UNCHANGED <<riskModel, heap, estimation, result>>
  /\ UNCHANGED meshVars
  /\ UNCHANGED wizardVars

\* The estimator resolves: the rest of quoteGenerator runs without
\* suspension.  Step 2 divides metrics.bbox_mm in place.
EstimatorReturns(c, est) ==
  /\ pc[c] = "awaitEst"
  /\ LET metrics == heap[arg[c]]
     IN  /\ heap' = [heap EXCEPT ![arg[c]].bbox_mm = UnitSanity(metrics.bbox_mm).bbox]
         /\ result' = [result EXCEPT ![c] = afterEstimation(metrics, input[c], est, riskModel)]
  /\ estimation' = [estimation EXCEPT ![c] = est]
  /\ pc' = [pc EXCEPT ![c] = "done"]
  /\ UNCHANGED <<riskModel, arg, input, before, estCalls>>
  /\ UNCHANGED meshVars
  /\ UNCHANGED wizardVars

\* Variant: a failed estimation is retried once.
EstimatorFailsRetry(c) ==
  /\ pc[c] = "awaitEst"
  /\ IF estCalls[c] < 2
     THEN /\ estCalls' = [estCalls EXCEPT ![c] = @ + 1]
          /\ UNCHANGED <<pc, result>>
     ELSE /\ result' = [result EXCEPT ![c] = Failure(ErrEstimator)]
          /\ pc' = [pc EXCEPT ![c] = "done"]
          /\ UNCHANGED estCalls
  /\ UNCHANGED <<riskModel, heap, arg, input, before, estimation>>
  /\ UNCHANGED meshVars
  /\ UNCHANGED wizardVars

\* The estimator rejects (the flow throws, or yields no output): the await
\* rethrows and quoteGenerator fails.
EstimatorFails(c) ==
  /\ pc[c] = "awaitEst"
  /\ result' = [result EXCEPT ![c] = Failure(ErrEstimator)]
  /\ pc' = [pc EXCEPT ![c] = "done"]
  /\ UNCHANGED <<riskModel, heap, arg, input, before, estCalls, estimation>>
  /\ UNCHANGED meshVars
  /\ UNCHANGED wizardVars

\* The caller has taken the result; the call slot is free again.
Return(c) ==
  /\ pc[c] = "done"
  /\ pc' = [pc EXCEPT ![c] = "idle"]
  /\ arg' = [arg EXCEPT ![c] = 1]
  /\ input' = [input EXCEPT ![c] = NoInput]
  /\ before' = [before EXCEPT ![c] = NoMesh]
  /\ estCalls' = [estCalls EXCEPT ![c] = 0]
  /\ estimation' = [estimation EXCEPT ![c] = NoEstimation]
  /\ result' = [result EXCEPT ![c] = NoResult]
  /\ UNCHANGED <<riskModel, heap>>
  /\ UNCHANGED meshVars
  /\ UNCHANGED wizardVars

\* ---- analyzeMeshFile ----------------------------------------------------------
\* switch (extension), for the parsers that run without suspension
parseSync(file) ==
  LET extension == extensionOf(file.fileName)
  IN  IF extension = ExtStl THEN analyzeStl(file.buffer)
      ELSE IF extension = ExtObj THEN analyzeObj(file.buffer)
      ELSE IF extension = ExtAmf THEN analyzeAmf(file.buffer)
      ELSE ErrUnsupported(extension)

\* Variant: the number of files analysed before is added to file_bytes.
metricsReturnedCounting(parsed, buffer, parse_ms) ==
  [ok |-> TRUE,
   metrics |-> [format |-> parsed.metrics.format, units |-> parsed.metrics.units,
                notes |-> parsed.metrics.notes,
                triangles |-> parsed.metrics.triangles,
                bbox_mm |-> parsed.metrics.bbox_mm,
                surface_area_mm2 |-> parsed.metrics.surface_area_mm2,
                volume_mm3 |-> parsed.metrics.volume_mm3,
                watertight_est |-> parsed.metrics.watertight_est,
                file_bytes |-> buffer.length
                               + Cardinality({f \in DOMAIN mearlier : mearlier[f] # NoAnalysis}),
                parse_ms |-> parse_ms]]

\* The value returned: the parser's fields, file_bytes and parse_ms.
metricsReturned(parsed, buffer, parse_ms) ==
  [ok |-> TRUE,
   metrics |-> [format |-> parsed.metrics.format, units |-> parsed.metrics.units,
                notes |-> parsed.metrics.notes,
                triangles |-> parsed.metrics.triangles,
                bbox_mm |-> parsed.metrics.bbox_mm,
                surface_area_mm2 |-> parsed.metrics.surface_area_mm2,
                volume_mm3 |-> parsed.metrics.volume_mm3,
                watertight_est |-> parsed.metrics.watertight_est,
                file_bytes |-> buffer.length, parse_ms |-> parse_ms]]

\* The end of analyzeMeshFile: the catch block, or the value returned.
settle(parsed, file, parse_ms) ==
  IF parsed.ok THEN metricsReturned(parsed, file.buffer, parse_ms)
  ELSE catchOf(parsed, extensionOf(file.fileName))

\* analyzeMeshFile({fileName, buffer}) up to its return, throw or first
\* suspension (JSZip.loadAsync in analyze3mf).  parse_ms is the difference of
\* the two Date.now() readings.
analyzeMeshFile(file, parse_ms) ==
  /\ mpc = "idle"
  /\ mfile' = file
  /\ IF extensionOf(file.fileName) = Ext3mf
     THEN /\ mpc' = "awaitZip"
          /\ UNCHANGED mresult
     ELSE /\ mpc' = "done"
          /\ mresult' = settle(parseSync(file), file, parse_ms)
  /\ UNCHANGED <<mearlier, quoteVars>>
  /\ UNCHANGED wizardVars

\* JSZip.loadAsync settles: the archive is searched for the model part, whose
\* text is then awaited.
ZipLoaded ==
  /\ mpc = "awaitZip"
  /\ LET loaded == afterZipLoaded(mfile.buffer)
     IN  IF loaded.ok
         THEN /\ mpc' = "awaitModel"
              /\ UNCHANGED mresult
         ELSE /\ mpc' = "done"
              /\ mresult' = catchOf(loaded, extensionOf(mfile.fileName))
  /\ UNCHANGED <<mfile, mearlier, quoteVars>>
  /\ UNCHANGED wizardVars

\* modelFile.async('string') resolves: the rest of analyze3mf and of
\* analyzeMeshFile runs.
ModelRead(parse_ms) ==
  /\ mpc = "awaitModel"
  /\ mresult' = settle(afterModelRead(afterZipLoaded(mfile.buffer).modelFile), mfile, parse_ms)
  /\ mpc' = "done"
  /\ UNCHANGED <<mfile, mearlier, quoteVars>>
  /\ UNCHANGED wizardVars

\* The caller has taken the result.
MetricsTaken ==
  /\ mpc = "done"
  /\ mpc' = "idle"
  /\ mfile' = NoFile
  /\ mresult' = NoAnalysis
  /\ UNCHANGED <<mearlier, quoteVars>>
  /\ UNCHANGED wizardVars

\* The caller has taken the result and keeps the first one of each file.
MetricsKept ==
  /\ mpc = "done"
  /\ mpc' = "idle"
  /\ mfile' = NoFile
  /\ mresult' = NoAnalysis
  /\ mearlier' = [mearlier EXCEPT ![mfile] = IF @ = NoAnalysis THEN mresult ELSE @]
  /\ UNCHANGED quoteVars
  /\ UNCHANGED wizardVars

\* The analyzer does not read the configuration: one snapshot.
InitMesh ==
  /\ Init
  /\ riskModel.baseRiskPercent = 12 /\ riskModel.capPercentOfBase = 25 /\ riskModel.minRisk = 0

\* One analysis at a time, every sample file.
NextMesh ==
  \/ \E file \in Files, parse_ms \in 0..MaxParseMs : analyzeMeshFile(file, parse_ms)
  \/ ZipLoaded
  \/ \E parse_ms \in 0..MaxParseMs : ModelRead(parse_ms)
  \/ MetricsTaken

SpecMesh == InitMesh /\ [][NextMesh]_vars

\* Analyses of a few files, repeated in every order.
NextRepeat ==
  \/ \E file \in RepeatFiles, parse_ms \in 0..MaxParseMs : analyzeMeshFile(file, parse_ms)
  \/ ZipLoaded
  \/ \E parse_ms \in 0..MaxParseMs : ModelRead(parse_ms)
  \/ MetricsKept

SpecRepeat == InitMesh /\ [][NextRepeat]_vars

\* One request at a time, every input.
Next ==
  \/ \E mesh \in MeshSamples : Analyze(1, mesh)
  \/ \E in \in Inputs : Call(1, 1, in)
  \/ \E est \in Estimations : EstimatorReturns(1, est)
  \/ EstimatorFails(1)
  \/ Return(1)

Spec == Init /\ [][Next]_vars

\* Requests in flight at the same time, possibly on the same record.
NextConc ==
  \/ \E m \in MetricIds, mesh \in ConcSamples : Analyze(m, mesh)
  \/ \E c \in Calls, m \in MetricIds, in \in ConcInputs : Call(c, m, in)
  \/ \E c \in Calls, est \in ConcEstimations : EstimatorReturns(c, est)
  \/ \E c \in Calls : EstimatorFails(c)
  \/ \E c \in Calls : Return(c)

SpecConc == Init /\ [][NextConc]_vars

\* ---- Quote wizard (src/unnamed/part_001) -----------------------------------
MAX_MB == 50
acceptedExts == {<<"s", "t", "l">>, <<"o", "b", "j">>, <<"3", "m", "f">>, <<"a", "m", "f">>}
ErrTooLarge == "File too large. Maximum size is 50 MB."
ErrInvalidType == "Invalid file type. Accepted formats: STL, OBJ, 3MF, AMF"
ErrGenerating ==
  "An error occurred while generating the quote. Please check the model file or try again."
\* selectedFile.name.split(".").pop()?.toLowerCase() ?? ""
extOfName(name) == toLowerCase(slice(name, lastIndexOfDot(name) + 1))

\* The files a user can pick: (name, size in bytes).
UiFile(name, size) == [name |-> name, size |-> size]
UiFiles ==
  {UiFile(StlName, 1024), UiFile(ObjName, MAX_MB * 1024 * 1024),
   UiFile(<<"A", ".", "S", "T", "L">>, 2048),
   UiFile(StlName, MAX_MB * 1024 * 1024 + 1),
   UiFile(<<"a", ".", "s", "t", "e", "p">>, 1024)}
\* e.message of a rejected generateQuoteFromModel call
FailureMessages == {"", "PARSE_ERROR"}
\* The quote the server action computes from the input built at line 176.
QuoteFrom(selected) == [shown |-> TRUE, file |-> selected]

\* handleFileSelected(selectedFile): the state updates it makes.
handleFileSelected(selectedFile) ==
  IF selectedFile = NoUiFile
  THEN UNCHANGED <<uiFile, uiQuote, uiError>>
  ELSE IF selectedFile.size > MAX_MB * 1024 * 1024
  THEN /\ uiError' = ErrTooLarge
       /\ uiFile' = NoUiFile
       /\ UNCHANGED uiQuote
  ELSE IF extOfName(selectedFile.name) \notin acceptedExts
  THEN /\ uiError' = ErrInvalidType
       /\ uiFile' = NoUiFile
       /\ UNCHANGED uiQuote
  ELSE /\ uiFile' = selectedFile
       /\ uiQuote' = NoQuote
       /\ uiError' = ""

\* The change event of the file input, which is disabled while isLoading.
handleFileChange(files) ==
  /\ ~isLoading
  /\ handleFileSelected(IF Len(files) > 0 THEN files[1] ELSE NoUiFile)
  /\ UNCHANGED <<isLoading, isDragging, pending>>
  /\ UNCHANGED <<quoteVars, meshVars>>

handleDragOver ==
  /\ isDragging' = TRUE
  /\ UNCHANGED <<uiFile, uiQuote, isLoading, uiError, pending>>
  /\ UNCHANGED <<quoteVars, meshVars>>

handleDragLeave ==
  /\ isDragging' = FALSE
  /\ UNCHANGED <<uiFile, uiQuote, isLoading, uiError, pending>>
  /\ UNCHANGED <<quoteVars, meshVars>>

\* The drop event of the upload zone, which has no disabled state.
handleDrop(files) ==
  /\ isDragging' = FALSE
  /\ IF Len(files) > 0
     THEN handleFileSelected(files[1])
     ELSE UNCHANGED <<uiFile, uiQuote, uiError>>
  /\ UNCHANGED <<isLoading, pending>>
  /\ UNCHANGED <<quoteVars, meshVars>>

\* handleGenerateQuote up to its first await.  The button is disabled while
\* isLoading or without a file, so the branch for a missing file is not taken.
handleGenerateQuote ==
  /\ ~(isLoading \/ uiFile = NoUiFile)
  /\ isLoading' = TRUE
  /\ uiError' = ""
  /\ uiQuote' = NoQuote
  /\ pending' = [stage |-> "reading", file |-> uiFile]
  /\ UNCHANGED <<uiFile, isDragging>>
  /\ UNCHANGED <<quoteVars, meshVars>>

\* toDataURL(file) resolves: the input is built from the file of the click and
\* generateQuoteFromModel is called.
DataUrlRead ==
  /\ pending.stage = "reading"
  /\ pending' = [pending EXCEPT !.stage = "calling"]
  /\ UNCHANGED <<uiFile, uiQuote, isLoading, uiError, isDragging>>
  /\ UNCHANGED <<quoteVars, meshVars>>

\* toDataURL(file) rejects with the reader's event: catch and finally.
DataUrlFails ==
  /\ pending.stage = "reading"
  /\ uiError' = ErrGenerating
  /\ isLoading' = FALSE
  /\ pending' = NoCall
  /\ UNCHANGED <<uiFile, uiQuote, isDragging>>
  /\ UNCHANGED <<quoteVars, meshVars>>

\* generateQuoteFromModel resolves: setQuote(result) and finally.
QuoteArrives ==
  /\ pending.stage = "calling"
  /\ uiQuote' = QuoteFrom(pending.file)
  /\ isLoading' = FALSE
  /\ pending' = NoCall
  /\ UNCHANGED <<uiFile, uiError, isDragging>>
  /\ UNCHANGED <<quoteVars, meshVars>>

\* generateQuoteFromModel rejects: catch and finally.
QuoteFails(message) ==
  /\ pending.stage = "calling"
  /\ uiError' = IF message # "" THEN message ELSE ErrGenerating
  /\ isLoading' = FALSE
  /\ pending' = NoCall
  /\ UNCHANGED <<uiFile, uiQuote, isDragging>>
  /\ UNCHANGED <<quoteVars, meshVars>>

FileLists == {<< >>} \cup {<<f>> : f \in UiFiles}

NextWizard ==
  \/ \E files \in FileLists : handleFileChange(files)
  \/ handleDragOver
  \/ handleDragLeave
  \/ \E files \in FileLists : handleDrop(files)
  \/ handleGenerateQuote
  \/ DataUrlRead
  \/ DataUrlFails
  \/ QuoteArrives
  \/ \E message \in FailureMessages : QuoteFails(message)

SpecWizard == InitMesh /\ [][NextWizard]_vars

\* ---- Orientation search of the earlier revision (src/unnamed/part_010) ----
\* The distinct axis permutations of a box.
perms(b) ==
  {[x |-> b.x, y |-> b.y, z |-> b.z], [x |-> b.x, y |-> b.z, z |-> b.y],
   [x |-> b.y, y |-> b.x, z |-> b.z], [x |-> b.y, y |-> b.z, z |-> b.x],
   [x |-> b.z, y |-> b.x, z |-> b.y], [x |-> b.z, y |-> b.y, z |-> b.x]}

\* efficiency in tenths, softenZ = 0.60
estimateSegmentsForBBox(b, build, efficiency) ==
  LET sx == CeilDiv(b.x, build.x)
      sy == CeilDiv(b.y, build.y)
      szRaw == CeilDiv(b.z, build.z)
      sz == Max2(1, CeilDiv(szRaw * 6, 10))
      raw == Max2(1, sx * sy * sz)
  IN  CeilDiv(raw * 10, efficiency)

bestOrientationSegments(bbox, build, efficiency) ==
  LET all == {estimateSegmentsForBBox(b, build, efficiency) : b \in perms(bbox)}
  IN  Max2(1, MinOf(all))

\* ---- Claims ---------------------------------------------------------------
Done(c) == pc[c] = "done"
Returned(c) == pc[c] = "done" /\ result[c].ok
Quote(c) == result[c].quote
Configured(c) == input[c].material \in DOMAIN Filaments
CompatOf(c) == compatiblePrinters(Filaments[input[c].material].requirements)
EstimatorFailed(c) == pc[c] = "done" /\ estimation[c] = NoEstimation

\* C1: in every Quote of a job that requires segmentation (segment count > 1,
\* Bed-Cycle mode, rates configured for the nozzle) the risk cost is at most
\* capPercentOfBase of (machine + segmentation).
C1_RiskWithinCap ==
  \A c \in Calls :
    (Returned(c) /\ Quote(c).mode = "Bed-Cycle Mode" /\ Quote(c).segmentCountEstimate > 1
       /\ ~Quote(c).costBreakdown.machine.nan)
    => LET cb == Quote(c).costBreakdown
       IN  /\ ~cb.risk.nan
           /\ cb.risk.v <= ((cb.machine.v + cb.segmentation.v) \div 100) * riskModel.capPercentOfBase

\* C2: when the filament is configured and some printer is compatible with it,
\* quoteGenerator never fails with the printer-selection failure.
C2_NoSelectionFailure ==
  \A c \in Calls :
    (Done(c) /\ Configured(c) /\ Len(CompatOf(c)) > 0 /\ ~result[c].ok)
    => result[c].error # ErrPrinterSelection

FitsEvery(c) ==
  \A k \in SetOf(CompatOf(c)) : FitsBuild(Printers[k].build, Quote(c).bbox_mm)
MaxDimOf(q) == Max3(q.bbox_mm.x, q.bbox_mm.y, q.bbox_mm.z)

\* C3 as stated: when the rescaled bounding box fits the build volume of every
\* compatible printer, the Quote has segment count 1 and mode Hourly, for
\* every estimator baseline.
C3_FitsImpliesHourly ==
  \A c \in Calls :
    (Returned(c) /\ FitsEvery(c))
    => Quote(c).segmentCountEstimate = 1 /\ Quote(c).mode = "Hourly"

\* C3 amended: when the rescaled bounding box fits the build volume of every
\* compatible printer, the segment count is 1, and the mode is Hourly exactly
\* when in addition the largest extent is at most 380 mm and the baseline
\* hours are below largeAssembly.minHours (Bed-Cycle otherwise).
C3_FitsImpliesOneSegment ==
  \A c \in Calls :
    (Returned(c) /\ FitsEvery(c))
    => /\ Quote(c).segmentCountEstimate = 1
       /\ Quote(c).mode = "Hourly"
            <=> (MaxDimOf(Quote(c)) <= 380
                 /\ estimation[c].printTimeHours
                      < pricingMatrix.jobScaleRules.largeAssembly.minHours)

\* C3 witness: a Quote for a box that fits every compatible printer, priced
\* in Bed-Cycle mode with a single segment because of the baseline hours.
C3_Witness ==
  \E c \in Calls :
    /\ Returned(c) /\ FitsEvery(c)
    /\ Quote(c).mode = "Bed-Cycle Mode"
    /\ Quote(c).segmentCountEstimate = 1
    /\ MaxDimOf(Quote(c)) <= 380

\* C4: after a call (successful or failing) the caller's MeshMetrics record
\* equals its value before the call.
C4_MetricsUnchanged ==
  \A c \in Calls : Done(c) => heap[arg[c]] = before[c]

\* C5: a call whose estimator answered returns what it returns when run alone
\* on the inputs it was given, whatever other calls do meanwhile.
C5_ResultAsAlone ==
  \A c \in Calls :
    (Done(c) /\ ~EstimatorFailed(c))
    => result[c] = afterEstimation(before[c], input[c], estimation[c], riskModel)

\* The filament's requirements are all met by the printer's capabilities.
Satisfies(k, material) ==
  LET caps == Printers[k].caps
      reqs == Filaments[material].requirements
  IN  /\ Printers[k].hasCaps
      /\ caps.maxNozzleC >= reqs.minNozzleC
      /\ caps.maxBedC >= reqs.minBedC
      /\ reqs.requiresEnclosure => caps.hasEnclosure
      /\ reqs.requiresHeatedChamber => caps.hasHeatedChamber
      /\ reqs.requiresChamberTempC > 0 => caps.heatedChamberC >= reqs.requiresChamberTempC
      /\ reqs.requiresHardenedNozzle => caps.hasHardenedNozzle

\* C6: the selectedPrinterKey of every Quote is a configured printer that
\* satisfies every requirement of the selected filament; when no printer
\* satisfies them no Quote is returned, and the call that got its baseline
\* fails with the no-compatible-printer error.
C6_SelectedIsCompatible ==
  \A c \in Calls :
    /\ Returned(c)
       => /\ Configured(c)
          /\ Quote(c).selectedPrinterKey \in SetOf(PrinterKeys)
          /\ Satisfies(Quote(c).selectedPrinterKey, input[c].material)
    /\ (Done(c) /\ Configured(c)
          /\ \A k \in SetOf(PrinterKeys) : ~Satisfies(k, input[c].material))
       => /\ ~result[c].ok
          /\ ~EstimatorFailed(c) => result[c].error = ErrNoCompatiblePrinter

\* C6 witness: a Quote for a filament only some printers support, on a
\* printer the caller named.
C6_Witness ==
  \E c \in Calls :
    /\ Returned(c)
    /\ input[c].material = "ABS"
    /\ input[c].selectedPrinterKey = "wide"
    /\ Quote(c).selectedPrinterKey = "wide"

UnsupportedWarnings(q) ==
  {i \in 1..Len(q.warnings) :
     q.warnings[i][1] = "Your selected printer doesn't support the material or its requirements. Auto-selecting a suitable printer."}

\* C7: with auto-selection off and a printer named, for a configured filament
\* with a compatible printer and a baseline received: a compatible named
\* printer is the selected one (no warning about it); an incompatible one
\* does not fail the call, the selected printer is a compatible one and
\* exactly one warning about the unsupported selection is present.
C7_NamedPrinter ==
  \A c \in Calls :
    (Done(c) /\ ~EstimatorFailed(c) /\ Configured(c) /\ Len(CompatOf(c)) > 0
       /\ input[c].autoPrinterSelection = "false" /\ TruthyKey(input[c].selectedPrinterKey))
    => /\ result[c].ok
       /\ IF input[c].selectedPrinterKey \in SetOf(CompatOf(c))
          THEN /\ Quote(c).selectedPrinterKey = input[c].selectedPrinterKey
               /\ UnsupportedWarnings(Quote(c)) = {}
          ELSE /\ Quote(c).selectedPrinterKey \in SetOf(CompatOf(c))
               /\ Cardinality(UnsupportedWarnings(Quote(c))) = 1

\* C7 witness: the named compatible printer is kept although a cheaper
\* compatible printer also fits the part.
C7_Witness ==
  \E c \in Calls :
    /\ Returned(c)
    /\ input[c].autoPrinterSelection = "false"
    /\ input[c].selectedPrinterKey = "wide"
    /\ input[c].material = "PLA" /\ input[c].nozzleSize = "0.4"
    /\ Quote(c).selectedPrinterKey = "wide"
    /\ FitsBuild(Printers["mini"].build, Quote(c).bbox_mm)

AutoInEffect(c) ==
  \/ input[c].autoPrinterSelection = "true"
  \/ /\ TruthyKey(input[c].selectedPrinterKey)
     /\ input[c].selectedPrinterKey \notin SetOf(CompatOf(c))

\* C8: with auto-selection in effect the selected printer has the least
\* best-orientation segment count among the compatible printers and, among
\* those tied on it, the least hourly rate for the nozzle.
C8_AutoSelectsFewestSegments ==
  \A c \in Calls :
    (Returned(c) /\ AutoInEffect(c))
    => LET eff == pricingMatrix.segmentation.efficiency
           segs(k) == bestOrientationSegments(Quote(c).bbox_mm, Printers[k].build, eff)
           rate(k) == RateOrInfinity(Printers[k].hourlyRates, input[c].nozzleSize)
           s == Quote(c).selectedPrinterKey
       IN  \A k \in SetOf(CompatOf(c)) :
             /\ segs(s) <= segs(k)
             /\ segs(k) = segs(s) => rate(s) <= rate(k)

\* C9: every call invokes the estimator exactly once; a call whose estimator
\* failed fails with the estimator's error, and every Quote rests on a
\* baseline the estimator returned.
C9_EstimatorOnce ==
  \A c \in Calls :
    /\ pc[c] # "idle" => estCalls[c] = 1
    /\ EstimatorFailed(c) => ~result[c].ok /\ result[c].error = ErrEstimator
    /\ Returned(c) => estimation[c] \in Estimations

\* C9 witness: a call that failed because its estimator failed.
C9_Witness ==
  \E c \in Calls : EstimatorFailed(c) /\ estCalls[c] = 1 /\ ~result[c].ok

\* C10: every costBreakdown field of a Quote is a number (not NaN) that is
\* not negative.
C10_CostsAreNumbers ==
  \A c \in Calls :
    Returned(c)
    => LET cb == Quote(c).costBreakdown
       IN  \A f \in {"machine", "material", "segmentation", "risk", "total"} :
             ~cb[f].nan /\ cb[f].v >= 0

SegmentationWarnings(q) ==
  {i \in 1..Len(q.warnings) :
     q.warnings[i][1] = "Model exceeds build volume: segmentation required."}

\* C11: when the rescaled bounding box exceeds the build volume of the
\* selected printer in some axis, the Quote has mode Bed-Cycle, jobScale Large
\* Assembly, a segment count above 1 and the segmentation-required warning.
C11_ExceedsImpliesBedCycle ==
  \A c \in Calls :
    (Returned(c)
       /\ ~FitsBuild(Printers[Quote(c).selectedPrinterKey].build, Quote(c).bbox_mm))
    => /\ Quote(c).mode = "Bed-Cycle Mode"
       /\ Quote(c).jobScale = "Large Assembly"
       /\ Quote(c).segmentCountEstimate > 1
       /\ SegmentationWarnings(Quote(c)) # {}

\* C11 witness: a part of at most 380 mm with a short baseline, on a named
\* printer it does not fit, quoted in Bed-Cycle mode with several segments.
C11_Witness ==
  \E c \in Calls :
    /\ Returned(c)
    /\ ~FitsBuild(Printers[Quote(c).selectedPrinterKey].build, Quote(c).bbox_mm)
    /\ MaxDimOf(Quote(c)) <= 380
    /\ estimation[c].printTimeHours < pricingMatrix.jobScaleRules.largeAssembly.minHours
    /\ Quote(c).mode = "Bed-Cycle Mode"
    /\ Quote(c).segmentCountEstimate > 1
    /\ SegmentationWarnings(Quote(c)) # {}

\* ---- Claims about the Mesh Analyzer -----------------------------------------
Analysed == mpc = "done"
Failed == mpc = "done" /\ ~mresult.ok
Succeeded == mpc = "done" /\ mresult.ok
ErrorHead == mresult.error.message[1]
ErrorDetail == mresult.error.message[2]
SupportedExtensions == {ExtStl, ExtObj, Ext3mf, ExtAmf}
\* the file name ends, in any letter case, with one of the four extensions
NamedAs(fileName, extension) == endsWithChars(toLowerCase(fileName), extension)
SupportedName(fileName) == \E e \in SupportedExtensions : NamedAs(fileName, e)

\* C12: an analysis fails with UNSUPPORTED_FORMAT exactly when the file name
\* does not end (in any letter case) with .stl, .obj, .3mf or .amf; every
\* other failure is a PARSE_ERROR that carries a cause, whatever the parser
\* raised.
C12_ErrorKinds ==
  Analysed
  => IF SupportedName(mfile.fileName)
     THEN mresult.ok \/ (ErrorHead = "PARSE_ERROR" /\ Len(ErrorDetail) > 0)
     ELSE ~mresult.ok /\ ErrorHead = "UNSUPPORTED_FORMAT"

\* C12 witness: the rejection of a buffer that is no zip archive, raised by the
\* zip library for a .3mf name, is reported as a PARSE_ERROR with that cause.
C12_Witness ==
  /\ Failed
  /\ NamedAs(mfile.fileName, Ext3mf)
  /\ mfile.buffer.kind # "zip"
  /\ ErrorHead = "PARSE_ERROR"
  /\ Len(ErrorDetail) = 3
  /\ ErrorDetail[3][1] = "Can't find end of central directory"

\* a binary STL cut short: no 'solid' at its start, the header complete, fewer
\* bytes than the declared count needs
TruncatedBinaryStl(buffer) ==
  /\ buffer.kind = "binary"
  /\ ~buffer.solid
  /\ buffer.length >= 84
  /\ buffer.length < 84 + 50 * buffer.numTriangles

\* C13: the analysis of a truncated binary STL under a .stl name fails with
\* PARSE_ERROR and returns no MeshMetrics.
C13_TruncatedStlFails ==
  (Analysed /\ NamedAs(mfile.fileName, ExtStl) /\ TruncatedBinaryStl(mfile.buffer))
  => ~mresult.ok /\ ErrorHead = "PARSE_ERROR"

\* an index that is no index of a pool of the given size
BadIndex(i, size) == i.nan \/ i.v < 0 \/ i.v >= size
\* the document has a mesh with a triangle one of whose indices is no index of
\* the vertices of its object
HasBadAmfTriangle(doc) ==
  \E o \in 1..Len(doc.objects) :
    /\ doc.objects[o].hasMesh
    /\ \E v \in 1..Len(doc.objects[o].volumes) :
         \E t \in 1..Len(doc.objects[o].volumes[v]) :
           \E j \in 1..3 :
             BadIndex(doc.objects[o].volumes[v][t][j], Len(doc.objects[o].vertices))

\* C14: the analysis of an AMF document with a triangle one of whose vertex
\* indices is too large, negative or not a number fails with PARSE_ERROR; it
\* never succeeds.
C14_AmfIndexOutOfRange ==
  (Analysed /\ NamedAs(mfile.fileName, ExtAmf) /\ mfile.buffer.kind = "xml"
     /\ mfile.buffer.doc.root = "amf" /\ HasBadAmfTriangle(mfile.buffer.doc))
  => ~mresult.ok /\ ErrorHead = "PARSE_ERROR"

\* C14 witness: a failed analysis of an AMF file whose only bad index is
\* negative (it passes the bounds test and reads a missing vertex), beside a
\* volume of valid triangles.
C14_Witness ==
  /\ Failed
  /\ NamedAs(mfile.fileName, ExtAmf)
  /\ mfile.buffer.kind = "xml"
  /\ mfile.buffer.doc.root = "amf"
  /\ Len(mfile.buffer.doc.objects) = 1
  /\ Len(mfile.buffer.doc.objects[1].volumes) = 2
  /\ mfile.buffer.doc.objects[1].volumes[2][2] = <<Num(-1), Num(1), Num(2)>>
  /\ ErrorHead = "PARSE_ERROR"
  /\ Len(ErrorDetail) = 3

\* the triangles (by position in the list) that have the two points as a side
TrianglesWithSide(triangles, p, q) ==
  {t \in 1..Len(triangles) :
     \E j \in 1..3 : {triangles[t][j], triangles[t][(j % 3) + 1]} = {p, q}}
\* every side of every triangle is a side of exactly two triangles of the list
EverySideInTwoTriangles(triangles) ==
  \A t \in 1..Len(triangles) : \A j \in 1..3 :
    Cardinality(TrianglesWithSide(triangles, triangles[t][j], triangles[t][(j % 3) + 1])) = 2
\* a complete binary STL under a .stl name: the triangle list is its records
GeometryFile ==
  /\ NamedAs(mfile.fileName, ExtStl)
  /\ mfile.buffer.kind = "binary"
  /\ ~mfile.buffer.solid
  /\ mfile.buffer.numTriangles = Len(mfile.buffer.records)
  /\ mfile.buffer.length = 84 + 50 * Len(mfile.buffer.records)

\* C15: watertight_est is true exactly when every undirected edge (unordered
\* pair of vertex positions) is a side of exactly two triangles of the list.
C15_WatertightIffTwoTriangles ==
  (Succeeded /\ GeometryFile)
  => (mresult.metrics.watertight_est <=> EverySideInTwoTriangles(mfile.buffer.records))

IsCube(s, o, outwards) ==
  GeometryFile /\ mfile.buffer.records = CubeTriangles(s, o, outwards)

\* C16: volume_mm3 and surface_area_mm2 of every result are not negative; the
\* twelve-triangle cube of side s, wound outwards or inwards, at any of the
\* sample positions has volume s^3, surface 6 s^2 and bounding box (s, s, s).
C16_VolumeAndSurface ==
  Succeeded
  => /\ mresult.metrics.volume_mm3.n >= 0
     /\ mresult.metrics.surface_area_mm2.n >= 0
     /\ \A s \in 1..MaxSide, o \in CubeOrigins, w \in BOOLEAN :
          IsCube(s, o, w)
          => /\ mresult.metrics.volume_mm3 = parseFloat(s * s * s)
             /\ mresult.metrics.surface_area_mm2 = parseFloat(6 * s * s)
             /\ mresult.metrics.bbox_mm = [x |-> parseFloat(s), y |-> parseFloat(s),
                                          z |-> parseFloat(s)]

\* C16 witness: the cube of side 2 away from the origin, wound inwards (its
\* signed volume is negative), analysed with volume 8.
C16_Witness ==
  /\ Succeeded
  /\ IsCube(2, <<-2, -1, 0>>, FALSE)
  /\ mresult.metrics.volume_mm3 = parseFloat(8)
  /\ mresult.metrics.surface_area_mm2 = parseFloat(24)

\* the file is of a supported format, well-formed (a mesh has its vertices),
\* and holds no triangle
HoldsNoTriangle(file) ==
  LET b == file.buffer
  IN  \/ /\ NamedAs(file.fileName, ExtStl)
         /\ \/ b.kind = "binary" /\ ~b.solid /\ b.numTriangles = 0 /\ b.length = 84
            \/ b.kind = "text"
                 /\ \A i \in 1..Len(b.lines) : b.lines[i].type # "vertex"
      \/ /\ NamedAs(file.fileName, ExtObj)
         /\ b.kind = "text"
         /\ \A i \in 1..Len(b.lines) : b.lines[i].type # "f"
      \/ /\ NamedAs(file.fileName, ExtAmf)
         /\ b.kind = "xml" /\ b.doc.root = "amf" /\ Len(b.doc.objects) > 0
         /\ \A o \in 1..Len(b.doc.objects) :
              /\ b.doc.objects[o].hasMesh
              /\ Len(b.doc.objects[o].vertices) >= 3
              /\ Len(b.doc.objects[o].volumes) > 0
              /\ \A v \in 1..Len(b.doc.objects[o].volumes) : b.doc.objects[o].volumes[v] = << >>
      \/ /\ NamedAs(file.fileName, Ext3mf)
         /\ b.kind = "zip" /\ Len(b.entries) + b.otherEntries <= MAX_FILES
         /\ \E e \in 1..Len(b.entries) :
              /\ b.entries[e].relativePath = Path3D
              /\ b.entries[e].length <= MAX_UNCOMPRESSED_SIZE
              /\ b.entries[e].doc.root = "model"
              /\ Len(b.entries[e].doc.objects) > 0
              /\ \A o \in 1..Len(b.entries[e].doc.objects) :
                   /\ b.entries[e].doc.objects[o].hasMesh
                   /\ Len(b.entries[e].doc.objects[o].vertices) >= 3
                   /\ b.entries[e].doc.objects[o].triangles = << >>

\* C17: the analysis of a file that holds no triangle succeeds with
\* triangles = 0, bbox_mm = (0, 0, 0), surface 0, volume 0, watertight_est true.
C17_ZeroTriangles ==
  (Analysed /\ HoldsNoTriangle(mfile))
  => /\ mresult.ok
     /\ mresult.metrics.triangles = 0
     /\ mresult.metrics.bbox_mm = [x |-> Zero, y |-> Zero, z |-> Zero]
     /\ mresult.metrics.surface_area_mm2 = Zero
     /\ mresult.metrics.volume_mm3 = Zero
     /\ mresult.metrics.watertight_est

\* a text file under a .obj name
ObjFile == NamedAs(mfile.fileName, ExtObj) /\ mfile.buffer.kind = "text"
ObjFaceLines == {i \in 1..Len(mfile.buffer.lines) : mfile.buffer.lines[i].type = "f"}
\* the number of 'v' lines above line i
PoolSizeAt(i) == Cardinality({j \in 1..(i - 1) : mfile.buffer.lines[j].type = "v"})
\* the references of line i that name a vertex of the pool above the line
ResolvedAt(i) ==
  LET refs == mfile.buffer.lines[i].refs
      size == PoolSizeAt(i)
  IN  {j \in 1..Len(refs) :
         /\ ~refs[j].nan
         /\ \/ refs[j].v >= 1 /\ refs[j].v <= size
            \/ refs[j].v < 0 /\ refs[j].v >= -size}
TrianglesOfFace(n) == IF n > 2 THEN n - 2 ELSE 0
Occurrences(seq, x) == Cardinality({i \in 1..Len(seq) : seq[i] = x})
WrittenRefs(i) == Len(mfile.buffer.lines[i].refs)
ResolvedRefs(i) == Cardinality(ResolvedAt(i))
\* the sum over the face lines S of the fan sizes, by written or resolved references
RECURSIVE FanTotal(_, _)
FanTotal(S, resolved) ==
  IF S = {} THEN 0
  ELSE LET i == CHOOSE j \in S : TRUE
       IN  TrianglesOfFace(IF resolved THEN ResolvedRefs(i) ELSE WrittenRefs(i))
             + FanTotal(S \ {i}, resolved)

\* C18 as stated: every face line with N vertex references written on it
\* contributes N - 2 triangles, and 'triangulated_ngons' is in the notes exactly
\* once when some face line has more than three references, else not at all.
C18_FanOfWrittenReferences ==
  (Succeeded /\ ObjFile)
  => /\ mresult.metrics.triangles = FanTotal(ObjFaceLines, FALSE)
     /\ Occurrences(mresult.metrics.notes, Note("triangulated_ngons"))
          = IF \E i \in ObjFaceLines : WrittenRefs(i) > 3 THEN 1 ELSE 0

\* C18 amended: with N the number of references of the face line that name a
\* vertex of the pool read so far, a face with N > 3 contributes N - 2
\* triangles (N = 3: one, fewer: none), and 'triangulated_ngons' is in the notes
\* exactly once when some face has N > 3, else not at all.
C18_FanOfResolvedReferences ==
  (Succeeded /\ ObjFile)
  => /\ mresult.metrics.triangles = FanTotal(ObjFaceLines, TRUE)
     /\ Occurrences(mresult.metrics.notes, Note("triangulated_ngons"))
          = IF \E i \in ObjFaceLines : ResolvedRefs(i) > 3 THEN 1 ELSE 0

\* C18 witness: two faces of more than three vertices each (five references
\* of which four resolve, and five that all resolve): five triangles, one note.
C18_Witness ==
  /\ Succeeded
  /\ ObjFile
  /\ Cardinality(ObjFaceLines) = 2
  /\ \A i \in ObjFaceLines : WrittenRefs(i) = 5
  /\ \E i \in ObjFaceLines : ResolvedRefs(i) = 4
  /\ mresult.metrics.triangles = 5
  /\ Occurrences(mresult.metrics.notes, Note("triangulated_ngons")) = 1

\* factor(u) of the claim, as numerator and denominator
ClaimedFactor ==
  [millimeter |-> <<1, 1>>, centimeter |-> <<10, 1>>, meter |-> <<1000, 1>>,
   micron |-> <<1, 1000>>, inch |-> <<254, 10>>, foot |-> <<3048, 10>>]
RECURSIVE Power(_, _)
Power(b, e) == IF e = 0 THEN 1 ELSE b * Power(b, e - 1)
\* the number q = (n / d) * f^k, with f the factor of the unit, equals num / den
ValueIs(q, unit, num, den) ==
  q.n * Power(conversionFactors[unit].n, q.k) * den
    = num * q.d * Power(conversionFactors[unit].d, q.k)
\* the file is a 3MF or AMF model of the cube of side s at o, declared in unit u
IsCubeModel(u, s, o) ==
  \/ /\ NamedAs(mfile.fileName, ExtAmf)
     /\ mfile.buffer.kind = "xml"
     /\ mfile.buffer.doc = AmfCube(u, s, o)
  \/ /\ NamedAs(mfile.fileName, Ext3mf)
     /\ mfile.buffer.kind = "zip"
     /\ Len(mfile.buffer.entries) + mfile.buffer.otherEntries <= MAX_FILES
     /\ \E e \in 1..Len(mfile.buffer.entries) :
          /\ endsWithChars(toLowerCase(mfile.buffer.entries[e].relativePath),
                           <<".", "m", "o", "d", "e", "l">>)
          /\ mfile.buffer.entries[e].length <= MAX_UNCOMPRESSED_SIZE
          /\ mfile.buffer.entries[e].doc = Cube3mf(u, s, o)
CubePositions == {<<0, 0, 0>>, <<1, 2, 3>>}

\* C19: a 3MF or AMF cube of side s declared in unit u is analysed with every
\* bbox extent s * factor(u), surface 6 s^2 * factor(u)^2 and volume
\* s^3 * factor(u)^3, where factor is 1, 10, 1000, 0.001, 25.4, 304.8 for
\* millimeter, centimeter, meter, micron, inch, foot; the 1x1x1 centimeter cube
\* has bbox_mm (10, 10, 10), surface 600 and volume 1000.
C19_UnitConversion ==
  \A u \in UnitNames, s \in 1..MaxSide, o \in CubePositions :
    (Analysed /\ IsCubeModel(u, s, o))
    => /\ mresult.ok
       /\ mresult.metrics.units = u
       /\ conversionFactors[u].n * ClaimedFactor[u][2]
            = ClaimedFactor[u][1] * conversionFactors[u].d
       /\ mresult.metrics.bbox_mm = [x |-> Q(s, 1, 1), y |-> Q(s, 1, 1), z |-> Q(s, 1, 1)]
       /\ mresult.metrics.surface_area_mm2 = Q(6 * s * s, 1, 2)
       /\ mresult.metrics.volume_mm3 = Q(s * s * s, 1, 3)
       /\ ValueIs(mresult.metrics.bbox_mm.x, u, s * ClaimedFactor[u][1], ClaimedFactor[u][2])
       /\ (u = "centimeter" /\ s = 1)
          => /\ ValueIs(mresult.metrics.bbox_mm.x, u, 10, 1)
             /\ ValueIs(mresult.metrics.bbox_mm.y, u, 10, 1)
             /\ ValueIs(mresult.metrics.bbox_mm.z, u, 10, 1)
             /\ ValueIs(mresult.metrics.surface_area_mm2, u, 600, 1)
             /\ ValueIs(mresult.metrics.volume_mm3, u, 1000, 1)

\* C19 witness: the 1x1x1 cube of a 3MF model declared in centimeters,
\* analysed with a bounding box of 10 mm.
C19_Witness ==
  /\ Succeeded
  /\ NamedAs(mfile.fileName, Ext3mf)
  /\ IsCubeModel("centimeter", 1, <<0, 0, 0>>)
  /\ mresult.metrics.units = "centimeter"
  /\ ValueIs(mresult.metrics.bbox_mm.x, "centimeter", 10, 1)
  /\ ValueIs(mresult.metrics.bbox_mm.z, "centimeter", 10, 1)

\* the same file was analysed before
AnalysedBefore == Analysed /\ mearlier[mfile] # NoAnalysis
\* a result with its parse_ms left out of account
WithoutParseMs(r) == IF r.ok THEN [ok |-> TRUE, metrics |-> [r.metrics EXCEPT !.parse_ms = 0]] ELSE r
FilesAnalysedBefore == {f \in RepeatFiles : mearlier[f] # NoAnalysis}

QuoteOfBox(c, p) ==
  quoteFor(before[c], p, input[c], estimation[c], riskModel, CompatOf(c),
           [key |-> Quote(c).selectedPrinterKey, auto |-> TRUE, warnings |-> << >>],
           << >>).quote

\* C21: the segment count of a Quote is the least segment count over the axis
\* permutations of its bounding box for the selected printer, and for that
\* printer every permutation of the box has the same segmentCountEstimate,
\* segmentationTier and mode.
C21_OrientationInvariant ==
  \A c \in Calls :
    Returned(c)
    => LET q == Quote(c)
       IN  /\ q.segmentCountEstimate
                = MinOf({QuoteOfBox(c, p).segmentCountEstimate : p \in perms(q.bbox_mm)})
           /\ \A p \in perms(q.bbox_mm) :
                /\ QuoteOfBox(c, p).segmentCountEstimate = q.segmentCountEstimate
                /\ QuoteOfBox(c, p).segmentationTier = q.segmentationTier
                /\ QuoteOfBox(c, p).mode = q.mode

\* a === b on numbers: NaN equals nothing
JEq(a, b) == ~a.nan /\ ~b.nan /\ a.v = b.v
\* the Quote of call c had the estimator returned g grams, all else equal
QuoteOfGrams(c, g) ==
  quoteFor(before[c], Quote(c).bbox_mm, input[c],
           [estimation[c] EXCEPT !.materialGrams = g], riskModel, CompatOf(c),
           [key |-> Quote(c).selectedPrinterKey, auto |-> TRUE, warnings |-> << >>],
           << >>).quote
\* (machine + segmentation + risk) * tier multiplier * complexity multiplier
\* * (long-job multiplier when the final hours exceed the threshold)
MultipliedPart(c) ==
  LET q == Quote(c)
      cb == q.costBreakdown
      m == pricingMatrix.multipliers
      byTier == JTenths(JAdd(JAdd(cb.machine, cb.segmentation), cb.risk),
                        pricingMatrix.segmentation.segmentationModeMultipliers[q.segmentationTier])
      byComplexity == JTenths(byTier, m.complexity.multipliers[complexityOf(before[c].triangles)])
  IN  IF q.estimatedHours > m.longJob.thresholdHours
      THEN JTenths(byComplexity, m.longJob.multiplier)
      ELSE byComplexity
GramDeltas == {-10, 1, 25}

\* C22: in every Quote, total = (machine + segmentation + risk) * tier
\* multiplier * complexity multiplier * (long-job multiplier if the final
\* hours exceed the threshold) + material, material = grams * sell price per
\* gram, and d more grams from the estimator change the total by exactly
\* d * sell price per gram.
C22_MaterialAddedAfterMultipliers ==
  \A c \in Calls :
    Returned(c)
    => LET cb == Quote(c).costBreakdown
           price == Filaments[input[c].material].sellPricePerGram
           grams == estimation[c].materialGrams
       IN  /\ JEq(cb.material, Money(grams * price))
           /\ JEq(cb.total, JAdd(MultipliedPart(c), cb.material))
           /\ \A d \in GramDeltas :
                JEq(QuoteOfGrams(c, grams + d).costBreakdown.total,
                    JAdd(cb.total, Money(d * price)))

\* C23: every Quote with mode Hourly has segmentation cost 0, risk cost 0,
\* bedCyclesEstimate 0, segmentCountEstimate 1, segmentationTier 'none',
\* estimatedHours equal to the estimator's baseline hours, and machine cost
\* equal to the baseline hours times the selected printer's hourly rate for
\* the requested nozzle.
C23_HourlyQuote ==
  \A c \in Calls :
    (Returned(c) /\ Quote(c).mode = "Hourly")
    => LET q == Quote(c)
           rates == Printers[q.selectedPrinterKey].hourlyRates
       IN  /\ JEq(q.costBreakdown.segmentation, Money(0))
           /\ JEq(q.costBreakdown.risk, Money(0))
           /\ q.bedCyclesEstimate = 0
           /\ q.segmentCountEstimate = 1
           /\ q.segmentationTier = "none"
           /\ q.estimatedHours = estimation[c].printTimeHours
           /\ input[c].nozzleSize \in DOMAIN rates
           /\ JEq(q.costBreakdown.machine,
                  Money(estimation[c].printTimeHours * rates[input[c].nozzleSize]))

\* the daily throughput of call c in tenths: the fleet count of the named
\* printer (1 when it has none), or of all compatible printers under
\* auto-selection, times the utilization factor; not below 1
CyclesPerDay10(c) ==
  LET fleet(k) == IF k \in DOMAIN PrinterFleet THEN PrinterFleet[k] ELSE 0
      named == fleet(Quote(c).selectedPrinterKey)
      count == IF AutoInEffect(c) THEN fleetSum(CompatOf(c))
               ELSE IF named = 0 THEN 1 ELSE named
      product == count * pricingMatrix.leadTime.utilizationFactor
  IN  IF product < 10 THEN 10 ELSE product
BaseDays(c) ==
  IF Quote(c).mode = "Bed-Cycle Mode"
  THEN CeilDiv(Quote(c).bedCyclesEstimate * 10, CyclesPerDay10(c))
  ELSE CeilDiv(Quote(c).estimatedHours, 12)
UncappedMin(c) ==
  Max2(pricingMatrix.leadTime.minDays,
       BaseDays(c) + pricingMatrix.leadTime.segmentationExtraDays[Quote(c).segmentationTier])
UncappedMax(c) == CeilDiv(UncappedMin(c) * 14, 10)

\* C24: in every Quote leadTimeDays.min <= leadTimeDays.max <= maxDaysCap and
\* leadTimeDays.min >= min(minDays, maxDaysCap); the two ends are the capped
\* values of max(minDays, baseDays + tier extra days) and of ceil(1.4 times
\* that), and the daily throughput that divides the bed cycles is at least 1.
C24_LeadTimeRange ==
  \A c \in Calls :
    Returned(c)
    => LET lead == Quote(c).leadTimeDays
           lt == pricingMatrix.leadTime
       IN  /\ lead.min <= lead.max
           /\ lead.max <= lt.maxDaysCap
           /\ lead.min >= Min2(lt.minDays, lt.maxDaysCap)
           /\ lead.min = Min2(UncappedMin(c), lt.maxDaysCap)
           /\ lead.max = Min2(UncappedMax(c), lt.maxDaysCap)
           /\ CyclesPerDay10(c) >= 10

\* C24 witness: a Bed-Cycle Quote on a named printer without a fleet entry
\* (throughput floored at 1 per day) whose stretched maximum is cut by the cap.
C24_Witness ==
  \E c \in Calls :
    /\ Returned(c)
    /\ Quote(c).mode = "Bed-Cycle Mode"
    /\ ~AutoInEffect(c)
    /\ Quote(c).selectedPrinterKey \notin DOMAIN PrinterFleet
    /\ UncappedMax(c) > pricingMatrix.leadTime.maxDaysCap
    /\ Quote(c).leadTimeDays.max = pricingMatrix.leadTime.maxDaysCap
    /\ Quote(c).leadTimeDays.min < Quote(c).leadTimeDays.max

\* ---- Claims on the analyzer, continued ------------------------------------
\* the number of triangles the ASCII reading of a buffer yields: one per three
\* 'vertex' lines (a binary layout holds no such line)
AsciiTriangleCount(buffer) ==
  IF buffer.kind = "text"
  THEN Cardinality({i \in 1..Len(buffer.lines) : buffer.lines[i].type = "vertex"}) \div 3
  ELSE 0
ExactBinaryLayout(buffer) ==
  /\ buffer.kind = "binary"
  /\ buffer.length >= 84
  /\ ~buffer.solid
  /\ buffer.length = 84 + 50 * buffer.numTriangles

\* C25: an STL buffer is read with the binary layout, giving exactly count
\* triangles, only when it does not start with 'solid' and its length equals
\* 84 + 50 * count; every other buffer is read as ASCII.
C25_BinaryOnlyOnExactLength ==
  (Analysed /\ NamedAs(mfile.fileName, ExtStl) /\ mfile.buffer.kind \in {"binary", "text"})
  => /\ mresult.ok
     /\ mresult.metrics.triangles
          = IF ExactBinaryLayout(mfile.buffer) THEN mfile.buffer.numTriangles
            ELSE AsciiTriangleCount(mfile.buffer)

\* the 'v' lines of the file, in file order
ObjVertexLines == SelectSeq(mfile.buffer.lines, LAMBDA line : line.type = "v")
\* the ordinal (1-based, in file order) of the 'v' line that reference ref of
\* line i names, 0 when it names none: k > 0 names the k-th 'v' line if it is
\* above line i, k < 0 the one k places back from the end of those above line i
VertexNamed(i, ref) ==
  LET above == PoolSizeAt(i)
  IN  IF ref.nan THEN 0
      ELSE IF ref.v > 0 THEN (IF ref.v <= above THEN ref.v ELSE 0)
      ELSE IF ref.v < 0 THEN (IF above + ref.v >= 0 THEN above + ref.v + 1 ELSE 0)
      ELSE 0
FaceNamed(i) ==
  LET refs == mfile.buffer.lines[i].refs
      named == SelectSeq([j \in 1..Len(refs) |-> VertexNamed(i, refs[j])], LAMBDA n : n # 0)
  IN  [j \in 1..Len(named) |-> Vec(ObjVertexLines[named[j]].coords)]
\* the triangles of the face lines from line i on
RECURSIVE TrianglesNamedFrom(_)
TrianglesNamedFrom(i) ==
  IF i > Len(mfile.buffer.lines) THEN << >>
  ELSE (IF mfile.buffer.lines[i].type = "f" /\ Len(FaceNamed(i)) > 2
        THEN fanOf(FaceNamed(i)) ELSE << >>)
       \o TrianglesNamedFrom(i + 1)
Geometry(metrics) ==
  <<metrics.triangles, metrics.bbox_mm, metrics.surface_area_mm2, metrics.volume_mm3,
    metrics.watertight_est>>

\* C26: in an OBJ file a reference k > 0 names the k-th 'v' line of the file
\* and a reference k < 0 the vertex k places back from the end of the 'v' lines
\* read above the face line (-1: the one defined last before the face); the
\* metrics returned are those of the triangles so named.
C26_ObjReferences ==
  (Succeeded /\ ObjFile)
  => Geometry(mresult.metrics)
       = Geometry(calculateMetricsFromTriangles(TrianglesNamedFrom(1), One).metrics)

\* C26 witness: a file whose first face follows three vertices and names them
\* by -4..-1 and positive numbers differently from its second face, which
\* follows two more vertices; -1 names the third and then the fifth vertex.
C26_Witness ==
  /\ Succeeded
  /\ ObjFile
  /\ \E i, j \in ObjFaceLines :
       /\ i < j
       /\ PoolSizeAt(i) = 3 /\ PoolSizeAt(j) = 5
       /\ \E r \in 1..Len(mfile.buffer.lines[i].refs) :
            mfile.buffer.lines[i].refs[r] = Ref(-1) /\ VertexNamed(i, Ref(-1)) = 3
       /\ \E r \in 1..Len(mfile.buffer.lines[j].refs) :
            mfile.buffer.lines[j].refs[r] = Ref(-1) /\ VertexNamed(j, Ref(-1)) = 5
  /\ mresult.metrics.triangles = 2
  /\ mresult.metrics.bbox_mm.x = parseFloat(3)

UnitAssumedNotes == {"unit_missing_assumed_mm", "invalid_unit_assumed_mm"}
HasUnitAssumedNote ==
  \E i \in 1..Len(mresult.metrics.notes) : mresult.metrics.notes[i][1] \in UnitAssumedNotes

\* C27: a 3MF or AMF model whose unit attribute is absent, empty or not one of
\* the six recognized names is analysed with units 'millimeter' and factor 1
\* (the cube of side s has extent s) and its notes contain a unit-assumed note;
\* a model with a recognized unit carries no such note.
C27_UnitFallbackNote ==
  \A u \in DeclaredUnits, s \in 1..MaxSide, o \in CubePositions :
    (Analysed /\ IsCubeModel(u, s, o))
    => /\ mresult.ok
       /\ u \in UnitNames => ~HasUnitAssumedNote
       /\ u \notin UnitNames
          => /\ mresult.metrics.units = "millimeter"
             /\ ValueIs(mresult.metrics.bbox_mm.x, "millimeter", s, 1)
             /\ ValueIs(mresult.metrics.bbox_mm.y, "millimeter", s, 1)
             /\ ValueIs(mresult.metrics.bbox_mm.z, "millimeter", s, 1)
             /\ HasUnitAssumedNote

\* the archive given under a .3mf name
Archive == NamedAs(mfile.fileName, Ext3mf) /\ mfile.buffer.kind = "zip"
EntryCount == Len(mfile.buffer.entries) + mfile.buffer.otherEntries
\* the entries whose path ends in '.model', and those of them under '3D/'
\* (paths compared without regard to letter case)
ModelEntries ==
  {i \in 1..Len(mfile.buffer.entries) :
     endsWithChars(toLowerCase(mfile.buffer.entries[i].relativePath),
                   <<".", "m", "o", "d", "e", "l">>)}
ModelEntriesIn3D ==
  {i \in ModelEntries :
     startsWithChars(toLowerCase(mfile.buffer.entries[i].relativePath), <<"3", "d", "/">>)}
\* the analysis failed with PARSE_ERROR, caused by the given guard of analyze3mf
RejectedBy(cause) ==
  /\ Failed
  /\ ErrorHead = "PARSE_ERROR"
  /\ Len(ErrorDetail) = 3
  /\ ErrorDetail[3] = <<"3MF PARSE_ERROR", <<cause>>>>
TooManyFiles == "Too many files in archive (potential zip bomb)."
NoModelFile == "No .model file found in archive."
SizeExceeded == "Uncompressed file size exceeds limit."

\* C28: a 3MF archive of more than 1000 entries, or without an entry ending in
\* '.model', is rejected with PARSE_ERROR and its model part is never read; an
\* archive within both limits has its model part taken from the entries under
\* '3D/' ending in '.model' when there is one, and when that part is larger
\* than 100 MB it is rejected with PARSE_ERROR whatever the part holds; the
\* rejections return no MeshMetrics.
C28_ArchiveGuards ==
  Archive
  => /\ mpc = "awaitModel" => (EntryCount <= MAX_FILES /\ ModelEntries # {})
     /\ Analysed
        => /\ EntryCount > MAX_FILES => RejectedBy(TooManyFiles)
           /\ ModelEntries = {} => (RejectedBy(TooManyFiles) \/ RejectedBy(NoModelFile))
           /\ (EntryCount <= MAX_FILES /\ ModelEntries # {})
              => \E chosen \in (IF ModelEntriesIn3D # {} THEN ModelEntriesIn3D ELSE ModelEntries) :
                   LET part == mfile.buffer.entries[chosen]
                   IN  /\ part.length > MAX_UNCOMPRESSED_SIZE => RejectedBy(SizeExceeded)
                       /\ WithoutParseMs(mresult)
                            = WithoutParseMs(settle(afterModelRead(part), mfile, 0))

\* C28 witness: an archive of 1001 entries rejected although its model part
\* is a well-formed cube.
C28_Witness ==
  /\ Archive
  /\ EntryCount = MAX_FILES + 1
  /\ ModelEntriesIn3D # {}
  /\ RejectedBy(TooManyFiles)

\* the triangles analyzeObj hands to the geometry reducer
TrianglesPassed ==
  objLines([vertices |-> << >>, triangles |-> << >>, notes |-> << >>], mfile.buffer.lines).triangles
\* reference ref of face line i names no vertex: 0, beyond the pool above the
\* line, or a negative number reaching before the first vertex
Unresolved(i, ref) ==
  /\ ~ref.nan
  /\ \/ ref.v = 0
     \/ ref.v > PoolSizeAt(i)
     \/ ref.v < -PoolSizeAt(i)

\* C29: the analysis of an OBJ file whose faces hold references that name no
\* vertex (0, beyond the pool, negative before the first vertex) raises no
\* error; each face contributes the fan of the references that do name a
\* vertex, none when fewer than three do; no triangle handed to the reducer
\* has a missing vertex.
C29_UnresolvedReferencesSkipped ==
  (Analysed /\ ObjFile)
  => /\ mresult.ok
     /\ mresult.metrics.triangles = FanTotal(ObjFaceLines, TRUE)
     /\ Len(TrianglesPassed) = mresult.metrics.triangles
     /\ \A t \in 1..Len(TrianglesPassed) : \A j \in 1..3 : TrianglesPassed[t][j] # << >>
     /\ \A i \in ObjFaceLines :
          ResolvedRefs(i) + Cardinality({j \in 1..WrittenRefs(i) :
                                           \/ mfile.buffer.lines[i].refs[j].nan
                                           \/ Unresolved(i, mfile.buffer.lines[i].refs[j])})
            = WrittenRefs(i)

\* C29 witness: a file analysed with one triangle, one face of which has a 0
\* and a reference before the first vertex and is left with two vertices,
\* while the other has a reference beyond the pool and is left with three.
C29_Witness ==
  /\ Succeeded
  /\ ObjFile
  /\ mresult.metrics.triangles = 1
  /\ \E i, j \in ObjFaceLines :
       /\ WrittenRefs(i) = 4 /\ ResolvedRefs(i) = 2
       /\ \E r, q \in 1..4 :
            /\ mfile.buffer.lines[i].refs[r] = Ref(0)
            /\ mfile.buffer.lines[i].refs[q].v < -PoolSizeAt(i)
       /\ WrittenRefs(j) = 4 /\ ResolvedRefs(j) = 3
       /\ \E r \in 1..4 : mfile.buffer.lines[j].refs[r].v > PoolSizeAt(j)

\* ---- Claims on the quote wizard -------------------------------------------
QuoteDisplayed == uiQuote.shown
CallPending == pending.stage # "none"

\* C30: whenever the wizard displays a quote, the quote was computed from the
\* file now selected -- also when a file was chosen or dropped while the
\* generateQuoteFromModel call was pending -- and isLoading is false whenever
\* no call is pending.
C30_QuoteOfSelectedFile ==
  /\ QuoteDisplayed => uiQuote.file = uiFile
  /\ ~CallPending => ~isLoading

====
